---- MODULE Spec2Model ----
(***************************************************************************)
(* A model of the veonep scripting language implementation: the scanner    *)
(* (src/src/lib/scanner.rs) as a step machine over a source string, and    *)
(* the tree-walking interpreter (src/src/lib/interpreter.rs) as a state    *)
(* machine whose state is the interpreter's current-environment pointer    *)
(* and the reference-counted heap of environments, functions, classes and  *)
(* instances.  An Rc<..> is an index into the corresponding heap sequence; *)
(* Rc::new appends to the heap.                                            *)
(***************************************************************************)
EXTENDS Integers, Sequences, FiniteSets, TLC

VARIABLES
    environment,  \* Interpreter.environment: index into envs
    envs,         \* heap of Environment { values, enclosing }
    functions,    \* heap of VeonFunction
    classes,      \* heap of VeonClass
    instances,    \* heap of VeonInstance
    program,      \* the statements handed to the last interpret call
    outcome,      \* what the last interpret call returned
    calls,        \* number of interpret calls made on this interpreter
    source,       \* Scanner.source
    start,        \* Scanner.start
    current,      \* Scanner.current
    line,         \* Scanner.line
    tokens,       \* the token vector tokenize is building
    scanned,      \* tokenize's position: idle, in its loop, or done with its Result
    pc,           \* main's position: idle when the library is used without main
    argv,         \* env::args().len()
    parsed,       \* what parser.parse() returned, None before it ran
    exit_code,    \* the process's exit status, None while it runs
    stdout,       \* the lines printed with println!
    stderr,       \* the lines printed with eprintln!
    parser,       \* the Parser { tokens, current } while parse() runs step by step
    parse_statements  \* the Vec<Stmt> `statements` parse() is building

interpVars == <<environment, envs, functions, classes, instances, program, outcome, calls>>
scanVars == <<source, start, current, line, tokens, scanned>>
parserVars == <<parser, parse_statements>>
mainVars == <<pc, argv, parsed, exit_code, stdout, stderr, parser, parse_statements>>
vars == <<environment, envs, functions, classes, instances, program, outcome, calls,
          source, start, current, line, tokens, scanned,
          pc, argv, parsed, exit_code, stdout, stderr, parser, parse_statements>>

----------------------------------------------------------------------------
(* Runtime values: token.rs, enum Value.  Each variant has its own payload *)
(* field so that two values of different variants are plain unequal.       *)

VString(str) == [k |-> "String", s |-> str]
VNumber(num) == [k |-> "Number", n |-> num]
VBoolean(bool) == [k |-> "Boolean", b |-> bool]
VArray(values) == [k |-> "Array", items |-> values]
VFunction(rc) == [k |-> "Function", f |-> rc]
VClass(rc) == [k |-> "Class", c |-> rc]
VInstance(rc) == [k |-> "Instance", i |-> rc]
VNull == [k |-> "Null"]
VNone == [k |-> "None"]

(* Option<T>: None is the empty sequence, Some(x) the one-element sequence. *)
None == <<>>
Some(x) == <<x>>
IsSome(opt) == Len(opt) = 1
Unwrap(opt) == opt[1]

(* Result<T, VeonError>. *)
Ok(v) == [ok |-> TRUE, val |-> v]
Err(kind, text) == [ok |-> FALSE, tty |-> kind, msg |-> text]

(* enum Control of interpreter.rs. *)
ControlValue(opt) == [c |-> "Value", opt |-> opt]
ControlReturn(v) == [c |-> "Return", ret |-> v]

----------------------------------------------------------------------------
(* The syntax tree: parser.rs, enum Expr and enum Stmt. *)

ExprLiteral(v) == [e |-> "Literal", value |-> v]
ExprUnary(op, r) == [e |-> "Unary", operator |-> op, right |-> r]
ExprBinary(l, op, r) == [e |-> "Binary", left |-> l, operator |-> op, right |-> r]
ExprLogical(l, op, r) == [e |-> "Logical", left |-> l, operator |-> op, right |-> r]
ExprGrouping(x) == [e |-> "Grouping", inner |-> x]
ExprVariable(n) == [e |-> "Variable", name |-> n]
ExprAssign(n, v) == [e |-> "Assign", name |-> n, value |-> v]
ExprArray(xs) == [e |-> "Array", items |-> xs]
ExprIndex(a, i) == [e |-> "Index", array |-> a, index |-> i]
ExprCall(f, args) == [e |-> "Call", callee |-> f, arguments |-> args]
ExprGet(o, n) == [e |-> "Get", object |-> o, name |-> n]
ExprSet(o, n, v) == [e |-> "Set", object |-> o, name |-> n, value |-> v]
ExprThis == [e |-> "This"]

StmtExpression(x) == [s |-> "Expression", expr |-> x]
StmtVar(n, init) == [s |-> "Var", name |-> n, initializer |-> init]
StmtBlock(stmts) == [s |-> "Block", statements |-> stmts]
StmtIf(c, t, el) == [s |-> "If", condition |-> c, then_branch |-> t, else_branch |-> el]
StmtWhile(c, b) == [s |-> "While", condition |-> c, body |-> b]
StmtFunction(n, ps, b) == [s |-> "Function", name |-> n, params |-> ps, body |-> b]
StmtReturn(opt) == [s |-> "Return", expr |-> opt]
StmtClass(n, ms) == [s |-> "Class", name |-> n, methods |-> ms]

----------------------------------------------------------------------------
(* The interpreter state threaded through execute and evaluate: the        *)
(* current-environment pointer and the heaps.                              *)

State(env, es, fs, cs, is) ==
    [environment |-> env, envs |-> es, functions |-> fs, classes |-> cs, instances |-> is]

(* HashMap<String, Value>: a function whose domain is the set of keys. *)
EmptyMap == [n \in {} |-> VNull]
Insert(map, key, value) ==
    [n \in DOMAIN map \cup {key} |-> IF n = key THEN value ELSE map[n]]

(* Environment::new and Environment::with_enclosing; enclosing 0 is None. *)
Environment_new == [values |-> EmptyMap, enclosing |-> 0]
with_enclosing(enclosing) == [values |-> EmptyMap, enclosing |-> enclosing]

(* Environment::define on a detached environment record. *)
define(env, name, value) == [env EXCEPT !.values = Insert(env.values, name, value)]

(* define through an Rc<RefCell<Environment>>. *)
define_at(es, rc, name, value) == [es EXCEPT ![rc] = define(es[rc], name, value)]

runtime_error(text, kind) == Err(kind, text)

(* A plausible slip in Environment::assign: insert without looking for an *)
(* existing binding, which defines the name in the current scope.          *)
assign_inserts(es, rc, name, value) ==
    [envs |-> define_at(es, rc, name, value), r |-> Ok(VNone)]

RECURSIVE assign(_, _, _, _)
(* Environment::assign: update the first environment of the chain that     *)
(* binds the name.  Yields the heap and the Result.                        *)
assign(es, rc, name, value) ==
    IF name \in DOMAIN es[rc].values
    THEN [envs |-> [es EXCEPT ![rc].values[name] = value], r |-> Ok(VNone)]
    ELSE IF es[rc].enclosing # 0
    THEN assign(es, es[rc].enclosing, name, value)
    ELSE [envs |-> es,
          r |-> Err("InvalidOperation", "Undefined variable '" \o name \o "'")]

RECURSIVE get(_, _, _)
(* Environment::get: the first binding of the name along the chain. *)
get(es, rc, name) ==
    IF name \in DOMAIN es[rc].values
    THEN Ok(es[rc].values[name])
    ELSE IF es[rc].enclosing # 0
    THEN get(es, es[rc].enclosing, name)
    ELSE Err("InvalidOperation", "Undefined variable '" \o name \o "'")

----------------------------------------------------------------------------
(* Value helpers of the interpreter. *)

(* impl PartialEq for Value: structural on strings, numbers, booleans,     *)
(* arrays, Null and None; Rc::ptr_eq on functions, classes and instances.  *)
RECURSIVE value_eq(_, _)
(* A plausible slip in eq: a number equals the string that spells it.     *)
value_eq_loose(a, b) ==
    CASE a.k = "Number" /\ b.k = "String" -> ToString(a.n) = b.s
      [] a.k = "String" /\ b.k = "Number" -> a.s = ToString(b.n)
      [] a.k = "String" /\ b.k = "String" -> a.s = b.s
      [] a.k = "Number" /\ b.k = "Number" -> a.n = b.n
      [] a.k = "Boolean" /\ b.k = "Boolean" -> a.b = b.b
      [] a.k = "Array" /\ b.k = "Array" ->
            /\ Len(a.items) = Len(b.items)
            /\ \A j \in 1..Len(a.items) : value_eq(a.items[j], b.items[j])
      [] a.k = "Null" /\ b.k = "Null" -> TRUE
      [] a.k = "None" /\ b.k = "None" -> TRUE
      [] a.k = "Function" /\ b.k = "Function" -> a.f = b.f
      [] a.k = "Class" /\ b.k = "Class" -> a.c = b.c
      [] a.k = "Instance" /\ b.k = "Instance" -> a.i = b.i
      [] OTHER -> FALSE

value_eq(a, b) ==
    CASE a.k = "String" /\ b.k = "String" -> a.s = b.s
      [] a.k = "Number" /\ b.k = "Number" -> a.n = b.n
      [] a.k = "Boolean" /\ b.k = "Boolean" -> a.b = b.b
      [] a.k = "Array" /\ b.k = "Array" ->
            /\ Len(a.items) = Len(b.items)
            /\ \A j \in 1..Len(a.items) : value_eq(a.items[j], b.items[j])
      [] a.k = "Null" /\ b.k = "Null" -> TRUE
      [] a.k = "None" /\ b.k = "None" -> TRUE
      [] a.k = "Function" /\ b.k = "Function" -> a.f = b.f
      [] a.k = "Class" /\ b.k = "Class" -> a.c = b.c
      [] a.k = "Instance" /\ b.k = "Instance" -> a.i = b.i
      [] OTHER -> FALSE

(* A plausible slip in is_truthy: only false, null and none are falsy.     *)
is_truthy_strict(value) ==
    CASE value.k = "Boolean" -> value.b
      [] value.k \in {"Null", "None"} -> FALSE
      [] OTHER -> TRUE

(* Interpreter::is_truthy. *)
is_truthy(value) ==
    CASE value.k = "Boolean" -> value.b
      [] value.k \in {"Null", "None"} -> FALSE
      [] value.k = "Number" -> value.n # 0
      [] value.k = "String" -> value.s # ""
      [] value.k = "Array" -> Len(value.items) # 0
      [] value.k \in {"Function", "Class", "Instance"} -> TRUE

Abs(x) == IF x < 0 THEN -x ELSE x
(* isize `/` truncates toward zero and `%` takes the dividend's sign. *)
RustDiv(a, b) ==
    IF (a < 0) = (b < 0) THEN Abs(a) \div Abs(b) ELSE -(Abs(a) \div Abs(b))
RustRem(a, b) == a - b * RustDiv(a, b)

(* The closures handed to numeric_op and compare, named by their operator. *)
ApplyInt(f, a, b) ==
    CASE f = "Minus" -> a - b
      [] f = "Star" -> a * b
      [] f = "Slash" -> RustDiv(a, b)
      [] f = "Modulo" -> RustRem(a, b)
ApplyCmp(f, a, b) ==
    CASE f = "Greater" -> a > b
      [] f = "GreaterEqual" -> a >= b
      [] f = "Less" -> a < b
      [] f = "LessEqual" -> a <= b

(* Interpreter::numeric_op. *)
numeric_op(left, right, f) ==
    IF left.k = "Number" /\ right.k = "Number"
    THEN Ok(VNumber(ApplyInt(f, left.n, right.n)))
    ELSE runtime_error("Operands must be numbers", "InvalidTypeOperation")

(* Interpreter::compare. *)
compare(left, right, f) ==
    IF left.k = "Number" /\ right.k = "Number"
    THEN Ok(VBoolean(ApplyCmp(f, left.n, right.n)))
    ELSE runtime_error("Operands must be numbers", "InvalidTypeOperation")

(* Interpreter::add_values. *)
add_values(left, right) ==
    CASE left.k = "Number" /\ right.k = "Number" -> Ok(VNumber(left.n + right.n))
      [] left.k = "String" /\ right.k = "String" -> Ok(VString(left.s \o right.s))
      [] left.k = "Array" /\ right.k = "Array" -> Ok(VArray(left.items \o right.items))
      [] OTHER -> runtime_error("Operands must be two numbers, two strings, or two arrays",
                                "InvalidTypeOperation")

(* The match on the operator of Expr::Binary, after both operands. *)
binary_op(operator, left_val, right_val) ==
    CASE operator = "Plus" -> add_values(left_val, right_val)
      [] operator = "Minus" -> numeric_op(left_val, right_val, "Minus")
      [] operator = "Star" -> numeric_op(left_val, right_val, "Star")
      [] operator \in {"Slash", "Modulo"} ->
            IF value_eq(right_val, VNumber(0))
            THEN runtime_error("Divide by zero", "DivideByZero")
            ELSE numeric_op(left_val, right_val, operator)
      [] operator \in {"Greater", "GreaterEqual", "Less", "LessEqual"} ->
            compare(left_val, right_val, operator)
      [] operator = "EqualEqual" -> Ok(VBoolean(value_eq(left_val, right_val)))
      [] operator = "NotEqual" -> Ok(VBoolean(~value_eq(left_val, right_val)))
      [] OTHER -> runtime_error("Unsupported binary operator", "InvalidOperation")

(* The match on the operator of Expr::Unary. *)
unary_op(operator, right_val) ==
    CASE operator = "Minus" -> numeric_op(VNumber(0), right_val, "Minus")
      [] operator = "Not" -> Ok(VBoolean(~is_truthy(right_val)))
      [] OTHER -> runtime_error("Unsupported unary operator", "InvalidOperation")

(* A plausible slip in Expr::Index: an index past the end yields null     *)
(* instead of the out-of-bounds error.                                     *)
index_op_lenient(array_val, index_val) ==
    IF ~(index_val.k = "Number" /\ index_val.n >= 0)
    THEN runtime_error("Array index must be a non-negative number", "InvalidTypeOperation")
    ELSE IF array_val.k # "Array"
    THEN runtime_error("Can only index arrays", "InvalidTypeOperation")
    ELSE IF index_val.n < Len(array_val.items)
    THEN Ok(array_val.items[index_val.n + 1])
    ELSE Ok(VNull)

(* The index checks of Expr::Index, after array and index are evaluated. *)
index_op(array_val, index_val) ==
    IF ~(index_val.k = "Number" /\ index_val.n >= 0)
    THEN runtime_error("Array index must be a non-negative number", "InvalidTypeOperation")
    ELSE IF array_val.k # "Array"
    THEN runtime_error("Can only index arrays", "InvalidTypeOperation")
    ELSE IF index_val.n < Len(array_val.items)
    THEN Ok(array_val.items[index_val.n + 1])
    ELSE runtime_error("Index " \o ToString(index_val.n) \o " out of bounds",
                       "InvalidOperation")

(* VeonFunction::bind: a copy of the function whose closure is a new       *)
(* environment over the original closure, with `this` defined.             *)
bind(st, func, instance) ==
    LET env == define(with_enclosing(st.functions[func].closure), "this", VInstance(instance))
        es == Append(st.envs, env)
        bound == [st.functions[func] EXCEPT !.closure = Len(es)]
        fs == Append(st.functions, bound)
    IN [st |-> [st EXCEPT !.envs = es, !.functions = fs], f |-> Len(fs)]

(* A plausible slip in VeonInstance::get: the class's methods are looked   *)
(* up before the instance's fields.                                        *)
instance_get_methods_first(st, inst, name) ==
    LET self == st.instances[inst]
        methods == st.classes[self.class].methods
    IN IF name \in DOMAIN methods
       THEN LET is == Append(st.instances, self)
                b == bind([st EXCEPT !.instances = is], methods[name], Len(is))
            IN [st |-> b.st, r |-> Ok(VFunction(b.f))]
       ELSE IF name \in DOMAIN self.fields
       THEN [st |-> st, r |-> Ok(self.fields[name])]
       ELSE [st |-> st,
             r |-> Err("InvalidOperation", "Undefined property '" \o name \o "'")]

(* VeonInstance::get: a field, else a method bound to                      *)
(* Rc::new(RefCell::new(self.clone())), else an error.                     *)
instance_get(st, inst, name) ==
    LET self == st.instances[inst]
        methods == st.classes[self.class].methods
    IN IF name \in DOMAIN self.fields
       THEN [st |-> st, r |-> Ok(self.fields[name])]
       ELSE IF name \in DOMAIN methods
       THEN LET is == Append(st.instances, self)
                b == bind([st EXCEPT !.instances = is], methods[name], Len(is))
            IN [st |-> b.st, r |-> Ok(VFunction(b.f))]
       ELSE [st |-> st,
             r |-> Err("InvalidOperation", "Undefined property '" \o name \o "'")]

(* VeonInstance::set through the instance's RefCell. *)
instance_set(st, inst, name, value) ==
    [st EXCEPT !.instances[inst].fields = Insert(st.instances[inst].fields, name, value)]

----------------------------------------------------------------------------
(* execute and evaluate.  Each yields [st, r]: the interpreter state after *)
(* the call and its Result.  `?` on an Err yields the Err together with    *)
(* the state reached so far.                                               *)

(* Calls between execute, evaluate and their loops go through one         *)
(* dispatcher: do_f(..) is the call self.f(..).                            *)
RECURSIVE Dispatch(_, _)
do_execute(a, b) == Dispatch("execute", <<a, b>>)
do_execute_block(a, b, c) == Dispatch("execute_block", <<a, b, c>>)
do_block_loop(a, b, c, d, e) == Dispatch("block_loop", <<a, b, c, d, e>>)
do_while_loop(a, b, c, d) == Dispatch("while_loop", <<a, b, c, d>>)
do_evaluate(a, b) == Dispatch("evaluate", <<a, b>>)
do_evaluate_logical(a, b) == Dispatch("evaluate_logical", <<a, b>>)
do_evaluate_items(a, b, c, d) == Dispatch("evaluate_items", <<a, b, c, d>>)
do_call_value(a, b, c) == Dispatch("call_value", <<a, b, c>>)
do_call_function(a, b, c) == Dispatch("call_function", <<a, b, c>>)
do_call_loop(a, b, c, d, e) == Dispatch("call_loop", <<a, b, c, d, e>>)
do_interpret_loop(a, b, c, d) == Dispatch("interpret_loop", <<a, b, c, d>>)


(* Environment::define of each parameter, in order, on the call's fresh    *)
(* environment: the zip loop of call_function.                             *)
RECURSIVE define_params(_, _, _, _)
define_params(env, params, args, i) ==
    IF i > Len(params) THEN env
    ELSE define_params(define(env, params[i], args[i]), params, args, i + 1)

(* The method loop of Stmt::Class: one Rc<VeonFunction> per method, closed *)
(* over the current environment, inserted into the method map by name.     *)
RECURSIVE class_methods(_, _, _, _)
class_methods(st, methods, i, method_map) ==
    IF i > Len(methods) THEN [st |-> st, map |-> method_map]
    ELSE IF methods[i].s # "Function"
    THEN class_methods(st, methods, i + 1, method_map)
    ELSE LET function == [name |-> methods[i].name,
                          params |-> methods[i].params,
                          body |-> methods[i].body,
                          closure |-> st.environment,
                          is_initializer |-> methods[i].name = "init"]
             fs == Append(st.functions, function)
         IN class_methods([st EXCEPT !.functions = fs], methods, i + 1,
                          Insert(method_map, methods[i].name, Len(fs)))

(* A plausible slip in call_function: the body's values are dropped and a  *)
(* call yields Null unless it is an initializer.                           *)
call_result_null(st, func, value) ==
    IF st.functions[func].is_initializer
    THEN LET this == get(st.envs, st.functions[func].closure, "this")
         IN IF this.ok THEN this ELSE Ok(VNull)
    ELSE Ok(VNull)

(* What call_function returns once the body is done: an initializer        *)
(* returns `this` of its closure (Null if there is none).                  *)
call_result(st, func, value) ==
    IF st.functions[func].is_initializer
    THEN LET this == get(st.envs, st.functions[func].closure, "this")
         IN IF this.ok THEN this ELSE Ok(VNull)
    ELSE Ok(value)

(* Interpreter::execute. *)
execute(st, stmt) ==
    CASE stmt.s = "Expression" ->
            LET v == do_evaluate(st, stmt.expr)
            IN IF v.r.ok THEN [st |-> v.st, r |-> Ok(ControlValue(Some(v.r.val)))] ELSE v
      [] stmt.s = "Var" ->
            LET v == IF IsSome(stmt.initializer)
                     THEN do_evaluate(st, Unwrap(stmt.initializer))
                     ELSE [st |-> st, r |-> Ok(VNull)]
            IN IF ~v.r.ok THEN v
               ELSE [st |-> [v.st EXCEPT !.envs =
                                define_at(v.st.envs, v.st.environment, stmt.name, v.r.val)],
                     r |-> Ok(ControlValue(None))]
      [] stmt.s = "Block" ->
            do_execute_block(st, stmt.statements, with_enclosing(st.environment))
      [] stmt.s = "If" ->
            LET c == do_evaluate(st, stmt.condition)
            IN IF ~c.r.ok THEN c
               ELSE IF is_truthy(c.r.val) THEN do_execute(c.st, stmt.then_branch)
               ELSE IF IsSome(stmt.else_branch) THEN do_execute(c.st, Unwrap(stmt.else_branch))
               ELSE [st |-> c.st, r |-> Ok(ControlValue(None))]
      [] stmt.s = "While" -> do_while_loop(st, stmt.condition, stmt.body, None)
      [] stmt.s = "Function" ->
            LET function == [name |-> stmt.name,
                             params |-> stmt.params,
                             body |-> stmt.body,
                             closure |-> st.environment,
                             is_initializer |-> FALSE]
                fs == Append(st.functions, function)
            IN [st |-> [st EXCEPT !.functions = fs,
                                  !.envs = define_at(st.envs, st.environment, stmt.name,
                                                     VFunction(Len(fs)))],
                r |-> Ok(ControlValue(None))]
      [] stmt.s = "Return" ->
            LET v == IF IsSome(stmt.expr)
                     THEN do_evaluate(st, Unwrap(stmt.expr))
                     ELSE [st |-> st, r |-> Ok(VNull)]
            IN IF ~v.r.ok THEN v ELSE [st |-> v.st, r |-> Ok(ControlReturn(v.r.val))]
      [] stmt.s = "Class" ->
            LET st1 == [st EXCEPT !.envs = define_at(st.envs, st.environment, stmt.name, VNull)]
                m == class_methods(st1, stmt.methods, 1, EmptyMap)
                cs == Append(m.st.classes, [name |-> stmt.name, methods |-> m.map])
                a == assign(m.st.envs, m.st.environment, stmt.name, VClass(Len(cs)))
                st2 == [m.st EXCEPT !.classes = cs, !.envs = a.envs]
            IN IF ~a.r.ok THEN [st |-> st2, r |-> a.r]
               ELSE [st |-> st2, r |-> Ok(ControlValue(None))]

(* The loop of Stmt::While. *)
while_loop(st, condition, body, last) ==
    LET c == do_evaluate(st, condition)
    IN IF ~c.r.ok THEN c
       ELSE IF ~is_truthy(c.r.val) THEN [st |-> c.st, r |-> Ok(ControlValue(last))]
       ELSE LET x == do_execute(c.st, body)
            IN IF ~x.r.ok THEN x
               ELSE IF x.r.val.c = "Return" THEN x
               ELSE do_while_loop(x.st, condition, body, x.r.val.opt)

(* A plausible slip in execute_block: the statements run in the current   *)
(* environment, the new one is never installed.                            *)
execute_block_unscoped(st, statements, env) ==
    do_block_loop(st, statements, 1, None, st.environment)

(* Interpreter::execute_block: install the new environment, run the        *)
(* statements, put the previous pointer back.                              *)
execute_block(st, statements, env) ==
    LET previous == st.environment
        es == Append(st.envs, env)
    IN do_block_loop([st EXCEPT !.envs = es, !.environment = Len(es)],
                  statements, 1, None, previous)

(* The statement loop of execute_block, from statement i on. *)
block_loop(st, statements, i, last, previous) ==
    IF i > Len(statements)
    THEN [st |-> [st EXCEPT !.environment = previous], r |-> Ok(ControlValue(last))]
    ELSE LET x == do_execute(st, statements[i])
         IN IF ~x.r.ok THEN x
            ELSE IF x.r.val.c = "Return"
            THEN [st |-> [x.st EXCEPT !.environment = previous], r |-> x.r]
            ELSE do_block_loop(x.st, statements, i + 1, x.r.val.opt, previous)

(* A plausible slip in the loops of Expr::Array and Expr::Call: the items *)
(* are evaluated from the last to the first.                               *)
evaluate_items_reversed(st, items, i, values) ==
    IF i > Len(items) THEN [st |-> st, r |-> Ok(values)]
    ELSE LET v == do_evaluate(st, items[Len(items) - i + 1])
         IN IF ~v.r.ok THEN v
            ELSE do_evaluate_items(v.st, items, i + 1, <<v.r.val>> \o values)

(* The element loop of Expr::Array and the argument loop of Expr::Call. *)
evaluate_items(st, items, i, values) ==
    IF i > Len(items) THEN [st |-> st, r |-> Ok(values)]
    ELSE LET v == do_evaluate(st, items[i])
         IN IF ~v.r.ok THEN v
            ELSE do_evaluate_items(v.st, items, i + 1, Append(values, v.r.val))

(* A plausible slip in Expr::Logical: both operands are evaluated before   *)
(* the operator chooses between them.                                      *)
evaluate_logical_eager(st, expr) ==
    LET left == do_evaluate(st, expr.left)
    IN IF ~left.r.ok THEN left
       ELSE LET right == do_evaluate(left.st, expr.right)
            IN IF ~right.r.ok THEN right
               ELSE IF (expr.operator = "Or") = is_truthy(left.r.val)
               THEN [st |-> right.st, r |-> left.r]
               ELSE right

(* The Expr::Logical arm of evaluate. *)
evaluate_logical(st, expr) ==
    LET left == do_evaluate(st, expr.left)
    IN IF ~left.r.ok THEN left
       ELSE IF expr.operator = "Or"
       THEN (IF is_truthy(left.r.val) THEN left ELSE do_evaluate(left.st, expr.right))
       ELSE (IF ~is_truthy(left.r.val) THEN left ELSE do_evaluate(left.st, expr.right))

(* Interpreter::evaluate. *)
evaluate(st, expr) ==
    CASE expr.e = "Literal" -> [st |-> st, r |-> Ok(expr.value)]
      [] expr.e = "Grouping" -> do_evaluate(st, expr.inner)
      [] expr.e = "Unary" ->
            LET right == do_evaluate(st, expr.right)
            IN IF ~right.r.ok THEN right
               ELSE [st |-> right.st, r |-> unary_op(expr.operator, right.r.val)]
      [] expr.e = "Binary" ->
            LET left == do_evaluate(st, expr.left)
            IN IF ~left.r.ok THEN left
               ELSE LET right == do_evaluate(left.st, expr.right)
                    IN IF ~right.r.ok THEN right
                       ELSE [st |-> right.st,
                             r |-> binary_op(expr.operator, left.r.val, right.r.val)]
      [] expr.e = "Logical" -> do_evaluate_logical(st, expr)
      [] expr.e = "Variable" -> [st |-> st, r |-> get(st.envs, st.environment, expr.name)]
      [] expr.e = "Assign" ->
            LET val == do_evaluate(st, expr.value)
            IN IF ~val.r.ok THEN val
               ELSE LET a == assign(val.st.envs, val.st.environment, expr.name, val.r.val)
                    IN IF ~a.r.ok THEN [st |-> val.st, r |-> a.r]
                       ELSE [st |-> [val.st EXCEPT !.envs = a.envs], r |-> val.r]
      [] expr.e = "Array" ->
            LET values == do_evaluate_items(st, expr.items, 1, <<>>)
            IN IF ~values.r.ok THEN values
               ELSE [st |-> values.st, r |-> Ok(VArray(values.r.val))]
      [] expr.e = "Index" ->
            LET array == do_evaluate(st, expr.array)
            IN IF ~array.r.ok THEN array
               ELSE LET index == do_evaluate(array.st, expr.index)
                    IN IF ~index.r.ok THEN index
                       ELSE [st |-> index.st, r |-> index_op(array.r.val, index.r.val)]
      [] expr.e = "Call" ->
            LET callee == do_evaluate(st, expr.callee)
            IN IF ~callee.r.ok THEN callee
               ELSE LET args == do_evaluate_items(callee.st, expr.arguments, 1, <<>>)
                    IN IF ~args.r.ok THEN args
                       ELSE do_call_value(args.st, callee.r.val, args.r.val)
      [] expr.e = "Get" ->
            LET object == do_evaluate(st, expr.object)
            IN IF ~object.r.ok THEN object
               ELSE IF object.r.val.k = "Instance"
               THEN instance_get(object.st, object.r.val.i, expr.name)
               ELSE [st |-> object.st,
                     r |-> runtime_error("Only instances have properties",
                                         "InvalidTypeOperation")]
      [] expr.e = "Set" ->
            LET object == do_evaluate(st, expr.object)
            IN IF ~object.r.ok THEN object
               ELSE LET value == do_evaluate(object.st, expr.value)
                    IN IF ~value.r.ok THEN value
                       ELSE IF object.r.val.k = "Instance"
                       THEN [st |-> instance_set(value.st, object.r.val.i, expr.name,
                                                 value.r.val),
                             r |-> value.r]
                       ELSE [st |-> value.st,
                             r |-> runtime_error("Only instances have fields",
                                                 "InvalidTypeOperation")]
      [] expr.e = "This" -> [st |-> st, r |-> get(st.envs, st.environment, "this")]

(* A plausible slip in call_value: init is bound to a clone of the new    *)
(* instance, as VeonInstance::get binds methods.                           *)
call_value_clone(st, callee, args) ==
    CASE callee.k = "Function" -> do_call_function(st, callee.f, args)
      [] callee.k = "Class" ->
            LET is == Append(st.instances, [class |-> callee.c, fields |-> EmptyMap])
                instance == Len(is)
                st1 == [st EXCEPT !.instances = Append(is, is[instance])]
                methods == st.classes[callee.c].methods
            IN IF "init" \in DOMAIN methods
               THEN LET bound == bind(st1, methods["init"], instance + 1)
                        x == do_call_function(bound.st, bound.f, args)
                    IN IF ~x.r.ok THEN x
                       ELSE [st |-> x.st, r |-> Ok(VInstance(instance))]
               ELSE [st |-> st1, r |-> Ok(VInstance(instance))]
      [] OTHER -> [st |-> st,
                   r |-> runtime_error("Can only call functions and classes",
                                       "InvalidOperation")]

(* Interpreter::call_value. *)
call_value(st, callee, args) ==
    CASE callee.k = "Function" -> do_call_function(st, callee.f, args)
      [] callee.k = "Class" ->
            LET is == Append(st.instances, [class |-> callee.c, fields |-> EmptyMap])
                instance == Len(is)
                st1 == [st EXCEPT !.instances = is]
                methods == st.classes[callee.c].methods
            IN IF "init" \in DOMAIN methods
               THEN LET bound == bind(st1, methods["init"], instance)
                        x == do_call_function(bound.st, bound.f, args)
                    IN IF ~x.r.ok THEN x
                       ELSE [st |-> x.st, r |-> Ok(VInstance(instance))]
               ELSE [st |-> st1, r |-> Ok(VInstance(instance))]
      [] OTHER -> [st |-> st,
                   r |-> runtime_error("Can only call functions and classes",
                                       "InvalidOperation")]

(* A plausible slip in call_function: the call's environment encloses the *)
(* caller's current environment instead of the function's closure.         *)
call_function_dynamic(st, func, args) ==
    LET params == st.functions[func].params
    IN IF Len(args) # Len(params)
       THEN [st |-> st,
             r |-> runtime_error("Expected " \o ToString(Len(params))
                                    \o " arguments but got " \o ToString(Len(args)),
                                 "InvalidOperation")]
       ELSE LET env == define_params(with_enclosing(st.environment), params, args, 1)
                previous == st.environment
                es == Append(st.envs, env)
            IN do_call_loop([st EXCEPT !.envs = es, !.environment = Len(es)],
                         func, 1, VNull, previous)

(* Interpreter::call_function. *)
call_function(st, func, args) ==
    LET params == st.functions[func].params
    IN IF Len(args) # Len(params)
       THEN [st |-> st,
             r |-> runtime_error("Expected " \o ToString(Len(params))
                                    \o " arguments but got " \o ToString(Len(args)),
                                 "InvalidOperation")]
       ELSE LET env == define_params(with_enclosing(st.functions[func].closure),
                                     params, args, 1)
                previous == st.environment
                es == Append(st.envs, env)
            IN do_call_loop([st EXCEPT !.envs = es, !.environment = Len(es)],
                         func, 1, VNull, previous)

(* A plausible slip in call_function: the Return arm leaves without        *)
(* `self.environment = previous`.                                          *)
call_loop_return_keeps(st, func, i, result, previous) ==
    LET body == st.functions[func].body
    IN IF i > Len(body)
       THEN [st |-> [st EXCEPT !.environment = previous], r |-> call_result(st, func, result)]
       ELSE LET x == do_execute(st, body[i])
            IN IF ~x.r.ok THEN x
               ELSE IF x.r.val.c = "Return"
               THEN [st |-> x.st, r |-> call_result(x.st, func, x.r.val.ret)]
               ELSE do_call_loop(x.st, func, i + 1,
                              IF IsSome(x.r.val.opt) THEN Unwrap(x.r.val.opt) ELSE result,
                              previous)

(* The body loop of call_function, from statement i on. *)
call_loop(st, func, i, result, previous) ==
    LET body == st.functions[func].body
    IN IF i > Len(body)
       THEN [st |-> [st EXCEPT !.environment = previous], r |-> call_result(st, func, result)]
       ELSE LET x == do_execute(st, body[i])
            IN IF ~x.r.ok THEN x
               ELSE IF x.r.val.c = "Return"
               THEN [st |-> [x.st EXCEPT !.environment = previous],
                     r |-> call_result(x.st, func, x.r.val.ret)]
               ELSE do_call_loop(x.st, func, i + 1,
                              IF IsSome(x.r.val.opt) THEN Unwrap(x.r.val.opt) ELSE result,
                              previous)

(* A plausible slip in interpret: a Return is taken for the statement's   *)
(* value and the loop goes on.                                             *)
interpret_loop_resumes(st, statements, i, last_value) ==
    IF i > Len(statements) THEN [st |-> st, r |-> Ok(last_value)]
    ELSE LET x == do_execute(st, statements[i])
         IN IF ~x.r.ok THEN x
            ELSE do_interpret_loop(x.st, statements, i + 1,
                                   IF x.r.val.c = "Return" THEN Some(x.r.val.ret)
                                   ELSE x.r.val.opt)

(* The statement loop of Interpreter::interpret, from statement i on. *)
interpret_loop(st, statements, i, last_value) ==
    IF i > Len(statements) THEN [st |-> st, r |-> Ok(last_value)]
    ELSE LET x == do_execute(st, statements[i])
         IN IF ~x.r.ok THEN x
            ELSE IF x.r.val.c = "Return" THEN [st |-> x.st, r |-> Ok(Some(x.r.val.ret))]
            ELSE do_interpret_loop(x.st, statements, i + 1, x.r.val.opt)

(* The dispatcher: the callee named by f applied to its arguments. *)
Dispatch(f, args) ==
    CASE f = "execute" -> execute(args[1], args[2])
      [] f = "execute_block" -> execute_block(args[1], args[2], args[3])
      [] f = "block_loop" -> block_loop(args[1], args[2], args[3], args[4], args[5])
      [] f = "while_loop" -> while_loop(args[1], args[2], args[3], args[4])
      [] f = "evaluate" -> evaluate(args[1], args[2])
      [] f = "evaluate_logical" -> evaluate_logical(args[1], args[2])
      [] f = "evaluate_items" -> evaluate_items(args[1], args[2], args[3], args[4])
      [] f = "call_value" -> call_value(args[1], args[2], args[3])
      [] f = "call_function" -> call_function(args[1], args[2], args[3])
      [] f = "call_loop" -> call_loop(args[1], args[2], args[3], args[4], args[5])
      [] f = "interpret_loop" -> interpret_loop(args[1], args[2], args[3], args[4])

(* Interpreter::interpret: Result<Option<Value>, VeonError>. *)
interpret(st, statements) == interpret_loop(st, statements, 1, None)

----------------------------------------------------------------------------
(* The scanner: scanner.rs.  A character is a one-character string, the    *)
(* source a sequence of characters; start and current are the 0-based      *)
(* offsets of the code, so source[current] of the code is source[current   *)
(* + 1] here.                                                              *)

Scanner(src, st, cur, ln) == [source |-> src, start |-> st, current |-> cur, line |-> ln]

Token(kind, literal, ln) == [tty |-> kind, value |-> literal, line |-> ln]

Digits == {"0", "1", "2", "3", "4", "5", "6", "7", "8", "9"}
Letters ==
    {"a", "b", "c", "d", "e", "f", "g", "h", "i", "j", "k", "l", "m", "n", "o", "p", "q",
     "r", "s", "t", "u", "v", "w", "x", "y", "z", "A", "B", "C", "D", "E", "F", "G", "H",
     "I", "J", "K", "L", "M", "N", "O", "P", "Q", "R", "S", "T", "U", "V", "W", "X", "Y",
     "Z"}
(* The character peek yields at the end of the source: '\0'. *)
Nul == "\\0"

(* Scanner::is_alpha and Scanner::is_alpha_numeric. *)
is_alpha(c) == c \in Letters \/ c = "_"
is_alpha_numeric(c) == is_alpha(c) \/ c \in Digits

(* Scanner::is_at_end. *)
is_at_end(sc) == Len(sc.source) = sc.current

(* Scanner::advance: the character at current, and the scanner past it. *)
advance(sc) == [sc |-> [sc EXCEPT !.current = sc.current + 1], c |-> sc.source[sc.current + 1]]

(* A plausible slip in Scanner::match_char: the matched character is not  *)
(* consumed.                                                               *)
match_char_peeks(sc, expected) ==
    IF is_at_end(sc) \/ sc.source[sc.current + 1] # expected
    THEN [sc |-> sc, matched |-> FALSE]
    ELSE [sc |-> sc, matched |-> TRUE]

(* Scanner::match_char. *)
match_char(sc, expected) ==
    IF is_at_end(sc) \/ sc.source[sc.current + 1] # expected
    THEN [sc |-> sc, matched |-> FALSE]
    ELSE [sc |-> [sc EXCEPT !.current = sc.current + 1], matched |-> TRUE]

(* Scanner::peek. *)
peek(sc) == IF is_at_end(sc) THEN Nul ELSE sc.source[sc.current + 1]

(* The characters source[from..to) collected into a String. *)
RECURSIVE Collect(_, _, _)
Collect(src, from, to) ==
    IF from >= to THEN "" ELSE src[from + 1] \o Collect(src, from + 1, to)

(* Scanner::lexeme. *)
lexeme(sc) == Collect(sc.source, sc.start, sc.current)

(* Scanner::simple. *)
simple(sc, tty) == Token(tty, VNone, sc.line)

ScannerError(text) == Err("InvalidToken", text)

(* A call whose argument is evaluated once, before the body, as a Rust    *)
(* call evaluates it.                                                      *)
Call(F(_), arg) == CHOOSE result \in {F(x) : x \in {arg}} : TRUE

(* The line-comment loop of tokenize: up to, not including, the newline. *)
RECURSIVE skip_comment(_)
skip_comment(sc) ==
    IF peek(sc) # "\n" /\ ~is_at_end(sc) THEN Call(skip_comment, advance(sc).sc) ELSE sc

(* Scanner::tokenize_string. *)
RECURSIVE tokenize_string(_)
tokenize_string(sc) ==
    IF peek(sc) # "\""
    THEN IF is_at_end(sc)
         THEN [sc |-> sc, r |-> ScannerError("Unterminated string")]
         ELSE Call(tokenize_string,
                   advance([sc EXCEPT !.line = IF peek(sc) = "\n" THEN sc.line + 1
                                               ELSE sc.line]).sc)
    ELSE LET closed == advance(sc).sc
             text == Collect(closed.source, closed.start + 1, closed.current - 1)
         IN [sc |-> closed, r |-> Ok(Token("String", VString(text), closed.line))]

(* The digits of isize::MAX, 9223372036854775807. *)
IsizeMaxDigits == <<9, 2, 2, 3, 3, 7, 2, 0, 3, 6, 8, 5, 4, 7, 7, 5, 8, 0, 7>>

DigitValue(c) ==
    CASE c = "0" -> 0 [] c = "1" -> 1 [] c = "2" -> 2 [] c = "3" -> 3 [] c = "4" -> 4
      [] c = "5" -> 5 [] c = "6" -> 6 [] c = "7" -> 7 [] c = "8" -> 8 [] c = "9" -> 9

(* The digits source[from..to) without leading zeros. *)
RECURSIVE Significant(_, _, _)
Significant(src, from, to) ==
    IF from >= to THEN <<>>
    ELSE IF src[from + 1] = "0" THEN Significant(src, from + 1, to)
    ELSE [j \in 1..(to - from) |-> DigitValue(src[from + j])]

(* Digit sequences of equal length compared as numbers. *)
RECURSIVE DigitsLeq(_, _, _)
DigitsLeq(a, b, j) ==
    IF j > Len(a) THEN TRUE
    ELSE IF a[j] # b[j] THEN a[j] < b[j]
    ELSE DigitsLeq(a, b, j + 1)

(* Whether str::parse::<isize> accepts the digits: the value is at most    *)
(* isize::MAX.                                                             *)
FitsIsize(digits) ==
    \/ Len(digits) < Len(IsizeMaxDigits)
    \/ Len(digits) = Len(IsizeMaxDigits) /\ DigitsLeq(digits, IsizeMaxDigits, 1)

(* The number a digit sequence denotes. *)
RECURSIVE DecimalValue(_, _)
DecimalValue(digits, j) ==
    IF j = 0 THEN 0 ELSE 10 * DecimalValue(digits, j - 1) + digits[j]

(* The digit loop of tokenize_number. *)
RECURSIVE skip_digits(_)
skip_digits(sc) == IF peek(sc) \in Digits THEN Call(skip_digits, advance(sc).sc) ELSE sc

(* A plausible slip in tokenize_number: a literal that does not fit is     *)
(* clamped to isize::MAX instead of being refused.                         *)
tokenize_number_saturating(sc) ==
    LET end == skip_digits(sc)
        digits == Significant(end.source, end.start, end.current)
    IN [sc |-> end,
        r |-> Ok(Token("Number",
                       IF FitsIsize(digits) THEN VNumber(DecimalValue(digits, Len(digits)))
                       ELSE VString("isize::MAX"),
                       end.line))]

(* Scanner::tokenize_number. *)
tokenize_number(sc) ==
    LET end == skip_digits(sc)
        digits == Significant(end.source, end.start, end.current)
    IN IF FitsIsize(digits)
       THEN [sc |-> end,
             r |-> Ok(Token("Number", VNumber(DecimalValue(digits, Len(digits))), end.line))]
       ELSE [sc |-> end, r |-> ScannerError("Invalid number literal: " \o lexeme(end))]

(* The keyword table of tokenize_identifier. *)
Keywords ==
    [fun |-> "Fun", let |-> "Let", class |-> "Class", this |-> "This", if |-> "If",
     else |-> "Else", while |-> "While", for |-> "For", return |-> "Return",
     and |-> "And", or |-> "Or"]

(* The identifier loop of tokenize_identifier. *)
RECURSIVE skip_alpha_numeric(_)
skip_alpha_numeric(sc) ==
    IF is_alpha_numeric(peek(sc)) THEN Call(skip_alpha_numeric, advance(sc).sc) ELSE sc

(* Scanner::tokenize_identifier. *)
tokenize_identifier(sc) ==
    LET end == skip_alpha_numeric(sc)
        text == lexeme(end)
    IN [sc |-> end,
        r |-> Ok(CASE text \in DOMAIN Keywords -> Token(Keywords[text], VNone, end.line)
                   [] text = "true" -> Token("Boolean", VBoolean(TRUE), end.line)
                   [] text = "false" -> Token("Boolean", VBoolean(FALSE), end.line)
                   [] text = "null" -> Token("Null", VNull, end.line)
                   [] OTHER -> Token("Identifier", VString(text), end.line))]

(* The one-character tokens of tokenize's match. *)
SimpleTokens ==
    [c \in {"(", ")", "{", "}", "[", "]", ",", ";", ".", "+", "-", "*", "%", "?"} |->
        CASE c = "(" -> "LeftParen" [] c = ")" -> "RightParen"
          [] c = "{" -> "LeftBrace" [] c = "}" -> "RightBrace"
          [] c = "[" -> "LeftBracket" [] c = "]" -> "RightBracket"
          [] c = "," -> "Comma" [] c = ";" -> "Semicolon" [] c = "." -> "Dot"
          [] c = "+" -> "Plus" [] c = "-" -> "Minus" [] c = "*" -> "Star"
          [] c = "%" -> "Modulo" [] c = "?" -> "QuestionMark"]

(* The operators that take a following '=': [alone, with '=']. *)
PairTokens ==
    [c \in {">", "<", "=", "!"} |->
        CASE c = ">" -> <<"Greater", "GreaterEqual">>
          [] c = "<" -> <<"Less", "LessEqual">>
          [] c = "=" -> <<"Equal", "EqualEqual">>
          [] c = "!" -> <<"Not", "NotEqual">>]

(* One token pushed, or none. *)
Pushed(sc, token) == [sc |-> sc, r |-> Ok(<<token>>)]
Skipped(sc) == [sc |-> sc, r |-> Ok(<<>>)]

(* The match on the character c that tokenize has just consumed: the       *)
(* scanner after it and the tokens it pushes, or the error.                *)
scan_char(sc, c) ==
    CASE c \in DOMAIN SimpleTokens -> Pushed(sc, simple(sc, SimpleTokens[c]))
      [] c = "/" ->
            LET m == match_char(sc, "/")
            IN IF m.matched THEN Skipped(skip_comment(m.sc))
               ELSE Pushed(m.sc, simple(m.sc, "Slash"))
      [] c \in DOMAIN PairTokens ->
            LET m == match_char(sc, "=")
            IN Pushed(m.sc, simple(m.sc, PairTokens[c][IF m.matched THEN 2 ELSE 1]))
      [] c = "\"" ->
            LET s == tokenize_string(sc)
            IN IF s.r.ok THEN Pushed(s.sc, s.r.val) ELSE s
      [] c \in Digits ->
            LET n == tokenize_number(sc)
            IN IF n.r.ok THEN Pushed(n.sc, n.r.val) ELSE n
      [] is_alpha(c) ->
            LET i == tokenize_identifier(sc)
            IN IF i.r.ok THEN Pushed(i.sc, i.r.val) ELSE i
      [] c = "\n" -> Skipped([sc EXCEPT !.line = sc.line + 1])
      [] c \in {" ", "\r", "\t"} -> Skipped(sc)
      [] OTHER -> [sc |-> sc, r |-> ScannerError("Invalid token: " \o c)]

----------------------------------------------------------------------------
(* The parser: parser.rs.  current is the 0-based cursor of the code, so   *)
(* tokens[current] of the code is tokens[current + 1] here.  Each parsing  *)
(* function yields [ps, r]: the parser after it and its Result.            *)

Parser(toks, cur) == [tokens |-> toks, current |-> cur]

(* Parser::error. *)
error(message) == Err("InvalidExpression", message)

(* Parser::peek, Parser::previous, Parser::is_at_end. *)
Parser_peek(ps) == ps.tokens[ps.current + 1]
previous(ps) == ps.tokens[ps.current]
Parser_is_at_end(ps) == Parser_peek(ps).tty = "Eof"

(* Parser::check. *)
check(ps, tty) == IF Parser_is_at_end(ps) THEN FALSE ELSE Parser_peek(ps).tty = tty

(* Parser::advance: the parser after it; the token it returns is previous. *)
Parser_advance(ps) ==
    IF ~Parser_is_at_end(ps) THEN [ps EXCEPT !.current = ps.current + 1] ELSE ps

(* Parser::matches: types in the order the code tries them. *)
matches(ps, types) ==
    IF \E j \in 1..Len(types) : check(ps, types[j])
    THEN [ps |-> Parser_advance(ps), matched |-> TRUE]
    ELSE [ps |-> ps, matched |-> FALSE]

(* Parser::consume. *)
consume(ps, tty, message) ==
    IF check(ps, tty) THEN [ps |-> Parser_advance(ps), r |-> Ok(VNone)]
    ELSE [ps |-> ps, r |-> error(message)]

(* Parser::previous_identifier. *)
previous_identifier(ps) ==
    IF previous(ps).value.k = "String" THEN Ok(previous(ps).value.s)
    ELSE error("Expected identifier")

(* Calls between the parsing functions go through one dispatcher. *)
RECURSIVE ParseDispatch(_, _)
do_parse(f, ps) == ParseDispatch(f, <<ps>>)
do_binary_loop(level, ps, expr) == ParseDispatch("binary_loop", <<level, ps, expr>>)
do_call_suffixes(ps, expr) == ParseDispatch("call_suffixes", <<ps, expr>>)
do_expression_list(ps, closing, items) ==
    ParseDispatch("expression_list", <<ps, closing, items>>)
do_declarations(ps, statements) == ParseDispatch("declarations", <<ps, statements>>)
do_method_list(ps, list) == ParseDispatch("method_list", <<ps, list>>)
do_parse_loop(ps, statements) == ParseDispatch("parse_loop", <<ps, statements>>)

(* The operator levels of or, and, equality, comparison, term and factor:  *)
(* the token types the level's loop matches and the function that parses   *)
(* its operands.                                                           *)
Levels ==
    [or |-> [types |-> <<"Or">>, operand |-> "and"],
     and |-> [types |-> <<"And">>, operand |-> "equality"],
     equality |-> [types |-> <<"EqualEqual", "NotEqual">>, operand |-> "comparison"],
     comparison |-> [types |-> <<"Greater", "GreaterEqual", "Less", "LessEqual">>,
                     operand |-> "term"],
     term |-> [types |-> <<"Plus", "Minus">>, operand |-> "factor"],
     factor |-> [types |-> <<"Star", "Slash", "Modulo">>, operand |-> "unary"]]

(* A plausible slip in the loop of a level: the right operand is parsed at *)
(* the same level, which groups operators of one level to the right.       *)
binary_loop_right(level, ps, expr) ==
    LET m == matches(ps, Levels[level].types)
    IN IF ~m.matched THEN [ps |-> ps, r |-> Ok(expr)]
       ELSE LET operator == previous(m.ps).tty
                right == do_parse(level, m.ps)
            IN IF ~right.r.ok THEN right
               ELSE do_binary_loop(level, right.ps,
                                   IF level \in {"or", "and"}
                                   THEN ExprLogical(expr, operator, right.r.val)
                                   ELSE ExprBinary(expr, operator, right.r.val))

(* The `while self.matches(..)` loop of a level: expr is the tree so far. *)
binary_loop(level, ps, expr) ==
    LET m == matches(ps, Levels[level].types)
    IN IF ~m.matched THEN [ps |-> ps, r |-> Ok(expr)]
       ELSE LET operator == previous(m.ps).tty
                right == do_parse(Levels[level].operand, m.ps)
            IN IF ~right.r.ok THEN right
               ELSE do_binary_loop(level, right.ps,
                                   IF level \in {"or", "and"}
                                   THEN ExprLogical(expr, operator, right.r.val)
                                   ELSE ExprBinary(expr, operator, right.r.val))

(* The body shared by Parser::or .. Parser::factor: an operand, then the   *)
(* level's loop.                                                           *)
binary_level(level, ps) ==
    LET left == do_parse(Levels[level].operand, ps)
    IN IF ~left.r.ok THEN left ELSE do_binary_loop(level, left.ps, left.r.val)

or(ps) == binary_level("or", ps)
and(ps) == binary_level("and", ps)
equality(ps) == binary_level("equality", ps)
comparison(ps) == binary_level("comparison", ps)
term(ps) == binary_level("term", ps)
factor(ps) == binary_level("factor", ps)

(* Parser::expression. *)
expression(ps) == do_parse("assignment", ps)

(* A plausible slip in Parser::assignment: a target that is neither a      *)
(* Variable nor a Get is let through and the assignment is dropped.        *)
assignment_lenient(ps) ==
    LET expr == do_parse("or", ps)
    IN IF ~expr.r.ok THEN expr
       ELSE LET m == matches(expr.ps, <<"Equal">>)
            IN IF ~m.matched THEN expr
               ELSE LET value == do_parse("assignment", m.ps)
                    IN IF ~value.r.ok THEN value
                       ELSE [ps |-> value.ps,
                             r |-> CASE expr.r.val.e = "Variable" ->
                                           Ok(ExprAssign(expr.r.val.name, value.r.val))
                                     [] expr.r.val.e = "Get" ->
                                           Ok(ExprSet(expr.r.val.object, expr.r.val.name,
                                                      value.r.val))
                                     [] OTHER -> Ok(expr.r.val)]

(* Parser::assignment. *)
assignment(ps) ==
    LET expr == do_parse("or", ps)
    IN IF ~expr.r.ok THEN expr
       ELSE LET m == matches(expr.ps, <<"Equal">>)
            IN IF ~m.matched THEN expr
               ELSE LET value == do_parse("assignment", m.ps)
                    IN IF ~value.r.ok THEN value
                       ELSE [ps |-> value.ps,
                             r |-> CASE expr.r.val.e = "Variable" ->
                                           Ok(ExprAssign(expr.r.val.name, value.r.val))
                                     [] expr.r.val.e = "Get" ->
                                           Ok(ExprSet(expr.r.val.object, expr.r.val.name,
                                                      value.r.val))
                                     [] OTHER -> error("Invalid assignment target")]

(* Parser::unary. *)
unary(ps) ==
    LET m == matches(ps, <<"Not", "Minus">>)
    IN IF ~m.matched THEN do_parse("call", ps)
       ELSE LET right == do_parse("unary", m.ps)
            IN IF ~right.r.ok THEN right
               ELSE [ps |-> right.ps, r |-> Ok(ExprUnary(previous(m.ps).tty, right.r.val))]

(* The comma-separated expressions of an argument list or an array         *)
(* literal, up to the closing token, which is not consumed.                *)
expression_list(ps, closing, items) ==
    IF items = <<>> /\ check(ps, closing) THEN [ps |-> ps, r |-> Ok(items)]
    ELSE LET item == do_parse("expression", ps)
         IN IF ~item.r.ok THEN item
            ELSE LET m == matches(item.ps, <<"Comma">>)
                 IN IF m.matched
                    THEN do_expression_list(m.ps, closing, Append(items, item.r.val))
                    ELSE [ps |-> m.ps, r |-> Ok(Append(items, item.r.val))]

(* The loop of Parser::call: calls, subscripts and property reads applied  *)
(* to the expression so far.                                               *)
call_suffixes(ps, expr) ==
    LET paren == matches(ps, <<"LeftParen">>)
        bracket == matches(ps, <<"LeftBracket">>)
        dot == matches(ps, <<"Dot">>)
    IN CASE paren.matched ->
              LET arguments == do_expression_list(paren.ps, "RightParen", <<>>)
              IN IF ~arguments.r.ok THEN arguments
                 ELSE LET c == consume(arguments.ps, "RightParen", "Expect ')' after arguments")
                      IN IF ~c.r.ok THEN c
                         ELSE do_call_suffixes(c.ps, ExprCall(expr, arguments.r.val))
         [] bracket.matched ->
              LET index == do_parse("expression", bracket.ps)
              IN IF ~index.r.ok THEN index
                 ELSE LET c == consume(index.ps, "RightBracket",
                                       "Expect ']' after index expression")
                      IN IF ~c.r.ok THEN c
                         ELSE do_call_suffixes(c.ps, ExprIndex(expr, index.r.val))
         [] dot.matched ->
              LET c == consume(dot.ps, "Identifier", "Expect property name after '.'")
              IN IF ~c.r.ok THEN c
                 ELSE LET name == previous_identifier(c.ps)
                      IN IF ~name.ok THEN [ps |-> c.ps, r |-> name]
                         ELSE do_call_suffixes(c.ps, ExprGet(expr, name.val))
         [] OTHER -> [ps |-> ps, r |-> Ok(expr)]

(* Parser::call. *)
call(ps) ==
    LET expr == do_parse("primary", ps)
    IN IF ~expr.r.ok THEN expr ELSE do_call_suffixes(expr.ps, expr.r.val)

(* Parser::primary.  A literal token whose value is of another variant is  *)
(* consumed and the next alternatives are tried on the token after it.     *)
primary(ps) ==
    LET boolean == matches(ps, <<"Boolean">>)
        number == matches(boolean.ps, <<"Number">>)
        string == matches(number.ps, <<"String">>)
        null == matches(string.ps, <<"Null">>)
        identifier == matches(null.ps, <<"Identifier">>)
        this == matches(identifier.ps, <<"This">>)
        paren == matches(this.ps, <<"LeftParen">>)
        bracket == matches(paren.ps, <<"LeftBracket">>)
    IN CASE boolean.matched /\ previous(boolean.ps).value.k = "Boolean" ->
              [ps |-> boolean.ps, r |-> Ok(ExprLiteral(previous(boolean.ps).value))]
         [] number.matched /\ previous(number.ps).value.k = "Number" ->
              [ps |-> number.ps, r |-> Ok(ExprLiteral(previous(number.ps).value))]
         [] string.matched /\ previous(string.ps).value.k = "String" ->
              [ps |-> string.ps, r |-> Ok(ExprLiteral(previous(string.ps).value))]
         [] null.matched -> [ps |-> null.ps, r |-> Ok(ExprLiteral(VNull))]
         [] identifier.matched /\ previous(identifier.ps).value.k = "String" ->
              [ps |-> identifier.ps, r |-> Ok(ExprVariable(previous(identifier.ps).value.s))]
         [] this.matched -> [ps |-> this.ps, r |-> Ok(ExprThis)]
         [] paren.matched ->
              LET expr == do_parse("expression", paren.ps)
              IN IF ~expr.r.ok THEN expr
                 ELSE LET c == consume(expr.ps, "RightParen", "Expect ')' after expression")
                      IN IF ~c.r.ok THEN c
                         ELSE [ps |-> c.ps, r |-> Ok(ExprGrouping(expr.r.val))]
         [] bracket.matched ->
              LET elements == do_expression_list(bracket.ps, "RightBracket", <<>>)
              IN IF ~elements.r.ok THEN elements
                 ELSE LET c == consume(elements.ps, "RightBracket",
                                       "Expect ']' after array literal")
                      IN IF ~c.r.ok THEN c
                         ELSE [ps |-> c.ps, r |-> Ok(ExprArray(elements.r.val))]
         [] OTHER -> [ps |-> bracket.ps, r |-> error("Expected expression")]

(* Parser::expression_statement. *)
expression_statement(ps) ==
    LET expr == do_parse("expression", ps)
    IN IF ~expr.r.ok THEN expr
       ELSE LET c == consume(expr.ps, "Semicolon", "Expect ';' after expression")
            IN IF ~c.r.ok THEN c ELSE [ps |-> c.ps, r |-> Ok(StmtExpression(expr.r.val))]

(* Parser::var_declaration. *)
var_declaration(ps) ==
    LET c == consume(ps, "Identifier", "Expected variable name")
    IN IF ~c.r.ok THEN c
       ELSE LET var_name == previous_identifier(c.ps)
                m == matches(c.ps, <<"Equal">>)
                initializer == IF m.matched THEN do_parse("expression", m.ps)
                               ELSE [ps |-> m.ps, r |-> Ok(VNone)]
            IN IF ~var_name.ok THEN [ps |-> c.ps, r |-> var_name]
               ELSE IF ~initializer.r.ok THEN initializer
               ELSE LET semi == consume(initializer.ps, "Semicolon",
                                        "Expect ';' after variable declaration")
                    IN IF ~semi.r.ok THEN semi
                       ELSE [ps |-> semi.ps,
                             r |-> Ok(StmtVar(var_name.val,
                                              IF m.matched THEN Some(initializer.r.val)
                                              ELSE None))]

(* Parser::return_statement. *)
return_statement(ps) ==
    LET value == IF ~check(ps, "Semicolon") THEN do_parse("expression", ps)
                 ELSE [ps |-> ps, r |-> Ok(VNone)]
    IN IF ~value.r.ok THEN value
       ELSE LET c == consume(value.ps, "Semicolon", "Expect ';' after return value")
            IN IF ~c.r.ok THEN c
               ELSE [ps |-> c.ps,
                     r |-> Ok(StmtReturn(IF ~check(ps, "Semicolon") THEN Some(value.r.val)
                                         ELSE None))]

(* Parser::if_statement. *)
if_statement(ps) ==
    LET open == consume(ps, "LeftParen", "Expect '(' after 'if'")
        condition == do_parse("expression", open.ps)
        close == consume(condition.ps, "RightParen", "Expect ')' after if condition")
        then_branch == do_parse("statement", close.ps)
        m == matches(then_branch.ps, <<"Else">>)
        else_branch == do_parse("statement", m.ps)
    IN IF ~open.r.ok THEN open
       ELSE IF ~condition.r.ok THEN condition
       ELSE IF ~close.r.ok THEN close
       ELSE IF ~then_branch.r.ok THEN then_branch
       ELSE IF ~m.matched
       THEN [ps |-> m.ps, r |-> Ok(StmtIf(condition.r.val, then_branch.r.val, None))]
       ELSE IF ~else_branch.r.ok THEN else_branch
       ELSE [ps |-> else_branch.ps,
             r |-> Ok(StmtIf(condition.r.val, then_branch.r.val, Some(else_branch.r.val)))]

(* Parser::while_statement. *)
while_statement(ps) ==
    LET open == consume(ps, "LeftParen", "Expect '(' after 'while'")
        condition == do_parse("expression", open.ps)
        close == consume(condition.ps, "RightParen", "Expect ')' after condition'")
        body == do_parse("statement", close.ps)
    IN IF ~open.r.ok THEN open
       ELSE IF ~condition.r.ok THEN condition
       ELSE IF ~close.r.ok THEN close
       ELSE IF ~body.r.ok THEN body
       ELSE [ps |-> body.ps, r |-> Ok(StmtWhile(condition.r.val, body.r.val))]

(* A plausible slip in for_statement: the increment is put before the     *)
(* body.                                                                   *)
for_desugar_increment_first(initializer, condition, increment, body) ==
    LET stepped == IF IsSome(increment)
                   THEN StmtBlock(<<StmtExpression(Unwrap(increment)), body>>)
                   ELSE body
        loop == StmtWhile(condition, stepped)
    IN IF IsSome(initializer) THEN StmtBlock(<<Unwrap(initializer), loop>>) ELSE loop

(* The end of Parser::for_statement: the loop built from its parts. *)
for_desugar(initializer, condition, increment, body) ==
    LET stepped == IF IsSome(increment)
                   THEN StmtBlock(<<body, StmtExpression(Unwrap(increment))>>)
                   ELSE body
        loop == StmtWhile(condition, stepped)
    IN IF IsSome(initializer) THEN StmtBlock(<<Unwrap(initializer), loop>>) ELSE loop

(* Parser::for_statement from the closing parenthesis on: the body, then  *)
(* the loop.                                                               *)
for_body(ps, initializer, condition, increment) ==
    LET close == consume(ps, "RightParen", "Expect ')' after for clauses")
    IN IF ~close.r.ok THEN close
       ELSE LET body == do_parse("statement", close.ps)
            IN IF ~body.r.ok THEN body
               ELSE [ps |-> body.ps,
                     r |-> Ok(for_desugar(initializer, condition, increment, body.r.val))]

(* Parser::for_statement from the increment clause on. *)
for_increment(ps, initializer, condition) ==
    IF ~check(ps, "RightParen")
    THEN LET inc == do_parse("expression", ps)
         IN IF ~inc.r.ok THEN inc
            ELSE for_body(inc.ps, initializer, condition, Some(inc.r.val))
    ELSE for_body(ps, initializer, condition, None)

(* Parser::for_statement from the condition clause on. *)
for_condition(ps, initializer) ==
    LET condition == IF ~check(ps, "Semicolon")
                     THEN do_parse("expression", ps)
                     ELSE [ps |-> ps, r |-> Ok(ExprLiteral(VBoolean(TRUE)))]
    IN IF ~condition.r.ok THEN condition
       ELSE LET semi == consume(condition.ps, "Semicolon", "Expect ';' after loop condition")
            IN IF ~semi.r.ok THEN semi
               ELSE for_increment(semi.ps, initializer, condition.r.val)

(* Parser::for_statement from the initializer clause on. *)
for_initializer(ps) ==
    LET semi == matches(ps, <<"Semicolon">>)
    IN IF semi.matched THEN for_condition(semi.ps, None)
       ELSE LET let == matches(semi.ps, <<"Let">>)
                init == IF let.matched THEN do_parse("var_declaration", let.ps)
                        ELSE do_parse("expression_statement", let.ps)
            IN IF ~init.r.ok THEN init
               ELSE for_condition(init.ps, Some(init.r.val))

(* Parser::for_statement. *)
for_statement(ps) ==
    LET open == consume(ps, "LeftParen", "Expect '(' after 'for'")
    IN IF ~open.r.ok THEN open ELSE for_initializer(open.ps)

(* The loop of Parser::block: declarations up to the closing brace. *)
declarations(ps, statements) ==
    IF ~check(ps, "RightBrace") /\ ~Parser_is_at_end(ps)
    THEN LET d == do_parse("declaration", ps)
         IN IF ~d.r.ok THEN d ELSE do_declarations(d.ps, Append(statements, d.r.val))
    ELSE [ps |-> ps, r |-> Ok(statements)]

(* Parser::block: yields the Vec<Stmt>. *)
block(ps) ==
    LET statements == do_declarations(ps, <<>>)
    IN IF ~statements.r.ok THEN statements
       ELSE LET c == consume(statements.ps, "RightBrace", "Expect '}' after block")
            IN IF ~c.r.ok THEN c ELSE [ps |-> c.ps, r |-> statements.r]

(* The parameter loop of Parser::function. *)
RECURSIVE parameters(_, _)
parameters(ps, params) ==
    LET c == consume(ps, "Identifier", "Expect parameter name")
    IN IF ~c.r.ok THEN c
       ELSE LET name == previous_identifier(c.ps)
                m == matches(c.ps, <<"Comma">>)
            IN IF ~name.ok THEN [ps |-> c.ps, r |-> name]
               ELSE IF m.matched THEN parameters(m.ps, Append(params, name.val))
               ELSE [ps |-> m.ps, r |-> Ok(Append(params, name.val))]

(* Parser::function. *)
function(ps) ==
    LET c == consume(ps, "Identifier", "Expected function name")
        name == previous_identifier(c.ps)
        open == consume(c.ps, "LeftParen", "Expect '(' after function name")
        params == IF ~check(open.ps, "RightParen") THEN parameters(open.ps, <<>>)
                  ELSE [ps |-> open.ps, r |-> Ok(<<>>)]
        close == consume(params.ps, "RightParen", "Expect ')' after parameters")
        brace == consume(close.ps, "LeftBrace", "Expect '{' before function body")
        body == do_parse("block", brace.ps)
    IN IF ~c.r.ok THEN c
       ELSE IF ~name.ok THEN [ps |-> c.ps, r |-> name]
       ELSE IF ~open.r.ok THEN open
       ELSE IF ~params.r.ok THEN params
       ELSE IF ~close.r.ok THEN close
       ELSE IF ~brace.r.ok THEN brace
       ELSE IF ~body.r.ok THEN body
       ELSE [ps |-> body.ps, r |-> Ok(StmtFunction(name.val, params.r.val, body.r.val))]

(* The method loop of Parser::class_declaration. *)
method_list(ps, list) ==
    IF ~check(ps, "RightBrace") /\ ~Parser_is_at_end(ps)
    THEN LET c == consume(ps, "Fun", "Expect 'fun' before method")
             f == do_parse("function", c.ps)
         IN IF ~c.r.ok THEN c
            ELSE IF ~f.r.ok THEN f
            ELSE do_method_list(f.ps, Append(list, f.r.val))
    ELSE [ps |-> ps, r |-> Ok(list)]

(* Parser::class_declaration. *)
class_declaration(ps) ==
    LET c == consume(ps, "Identifier", "Expected class name")
        name == previous_identifier(c.ps)
        brace == consume(c.ps, "LeftBrace", "Expect '{' before class body")
        ms == do_method_list(brace.ps, <<>>)
        close == consume(ms.ps, "RightBrace", "Expect '}' after class body")
    IN IF ~c.r.ok THEN c
       ELSE IF ~name.ok THEN [ps |-> c.ps, r |-> name]
       ELSE IF ~brace.r.ok THEN brace
       ELSE IF ~ms.r.ok THEN ms
       ELSE IF ~close.r.ok THEN close
       ELSE [ps |-> close.ps, r |-> Ok(StmtClass(name.val, ms.r.val))]

(* Parser::statement. *)
statement(ps) ==
    LET if == matches(ps, <<"If">>)
        while == matches(ps, <<"While">>)
        for == matches(ps, <<"For">>)
        return == matches(ps, <<"Return">>)
        brace == matches(ps, <<"LeftBrace">>)
    IN CASE if.matched -> do_parse("if_statement", if.ps)
         [] while.matched -> do_parse("while_statement", while.ps)
         [] for.matched -> do_parse("for_statement", for.ps)
         [] return.matched -> do_parse("return_statement", return.ps)
         [] brace.matched ->
              LET b == do_parse("block", brace.ps)
              IN IF ~b.r.ok THEN b ELSE [ps |-> b.ps, r |-> Ok(StmtBlock(b.r.val))]
         [] OTHER -> do_parse("expression_statement", ps)

(* Parser::declaration. *)
declaration(ps) ==
    LET class == matches(ps, <<"Class">>)
        fun == matches(ps, <<"Fun">>)
        let == matches(ps, <<"Let">>)
    IN CASE class.matched -> do_parse("class_declaration", class.ps)
         [] fun.matched -> do_parse("function", fun.ps)
         [] let.matched -> do_parse("var_declaration", let.ps)
         [] OTHER -> do_parse("statement", ps)

(* The loop of Parser::parse. *)
parse_loop(ps, statements) ==
    IF ~Parser_is_at_end(ps)
    THEN LET d == do_parse("declaration", ps)
         IN IF ~d.r.ok THEN d ELSE do_parse_loop(d.ps, Append(statements, d.r.val))
    ELSE [ps |-> ps, r |-> Ok(statements)]

ParseDispatch(f, args) ==
    CASE f = "binary_loop" -> binary_loop(args[1], args[2], args[3])
      [] f = "call_suffixes" -> call_suffixes(args[1], args[2])
      [] f = "expression_list" -> expression_list(args[1], args[2], args[3])
      [] f = "declarations" -> declarations(args[1], args[2])
      [] f = "method_list" -> method_list(args[1], args[2])
      [] f = "parse_loop" -> parse_loop(args[1], args[2])
      [] f = "or" -> or(args[1])
      [] f = "and" -> and(args[1])
      [] f = "equality" -> equality(args[1])
      [] f = "comparison" -> comparison(args[1])
      [] f = "term" -> term(args[1])
      [] f = "factor" -> factor(args[1])
      [] f = "unary" -> unary(args[1])
      [] f = "call" -> call(args[1])
      [] f = "primary" -> primary(args[1])
      [] f = "expression" -> expression(args[1])
      [] f = "assignment" -> assignment(args[1])
      [] f = "expression_statement" -> expression_statement(args[1])
      [] f = "var_declaration" -> var_declaration(args[1])
      [] f = "return_statement" -> return_statement(args[1])
      [] f = "if_statement" -> if_statement(args[1])
      [] f = "while_statement" -> while_statement(args[1])
      [] f = "for_statement" -> for_statement(args[1])
      [] f = "block" -> block(args[1])
      [] f = "function" -> function(args[1])
      [] f = "class_declaration" -> class_declaration(args[1])
      [] f = "statement" -> statement(args[1])
      [] f = "declaration" -> declaration(args[1])

(* Parser::new(tokens) and Parser::parse. *)
parse(toks) == parse_loop(Parser(toks, 0), <<>>)

----------------------------------------------------------------------------
(* Programs: the statement lists handed to interpret.                      *)

MaxCalls == 2    \* interpret calls made on one interpreter

Num(n) == ExprLiteral(VNumber(n))
Str(s) == ExprLiteral(VString(s))
Bool(b) == ExprLiteral(VBoolean(b))
Ref(n) == ExprVariable(n)
Stmt(x) == StmtExpression(x)
Let(n, x) == StmtVar(n, Some(x))
DivZero == ExprBinary(Num(1), "Slash", Num(0))

(* { let x = 1; <fails>; } and the same failure reached through a call. *)
FailingExprs == {DivZero, Ref("undefined")}
BlockErrorPrograms ==
    {<<StmtBlock(<<Let("x", Num(1)), Stmt(bad)>>)>> : bad \in FailingExprs}
    \cup {<<Let("x", Num(5)),
            StmtBlock(<<Let("x", Num(1)), StmtBlock(<<Let("n", Num(2)), Stmt(DivZero)>>)>>)>>}

(* x;  a; *)
ProbePrograms == {<<Stmt(Ref(n))>> : n \in {"x", "a"}}

(* v; followed by one statement that produces no value. *)
SilentStmts ==
    {Let("y", Num(0)), StmtFunction("g", <<>>, <<>>), StmtClass("K", <<>>),
     StmtIf(Bool(FALSE), Stmt(Num(9)), None)}
LastValuePrograms ==
    {<<Stmt(Num(7)), s>> : s \in SilentStmts}
    \cup {<<>>, <<Stmt(Num(7)), Stmt(Str("s"))>>}

(* class Counter { fun init(start) { this.value = start; }
                   fun inc() { this.value = this.value + 1; return this.value; }
                   fun me() { return this; } } *)
CounterClass ==
    StmtClass("Counter",
        <<StmtFunction("init", <<"start">>,
              <<Stmt(ExprSet(ExprThis, "value", Ref("start")))>>),
          StmtFunction("inc", <<>>,
              <<Stmt(ExprSet(ExprThis, "value",
                        ExprBinary(ExprGet(ExprThis, "value"), "Plus", Num(1)))),
                StmtReturn(Some(ExprGet(ExprThis, "value")))>>),
          StmtFunction("me", <<>>, <<StmtReturn(Some(ExprThis))>>)>>)
Inc(o) == Stmt(ExprCall(ExprGet(Ref(o), "inc"), <<>>))
MethodPrograms ==
    {<<CounterClass, Let("c", ExprCall(Ref("Counter"), <<Num(1)>>)), Inc("c")>>,
     <<CounterClass, Let("c", ExprCall(Ref("Counter"), <<Num(1)>>)), Inc("c"), Inc("c")>>,
     <<CounterClass, Let("c", ExprCall(Ref("Counter"), <<Num(1)>>)),
       Stmt(ExprBinary(ExprCall(ExprGet(Ref("c"), "me"), <<>>), "EqualEqual", Ref("c")))>>}

(* class P { fun init(a) { this.f = a; <tail> } }  P(args).f *)
InitTails == {<<>>, <<StmtReturn(Some(Num(7)))>>, <<StmtReturn(None)>>, <<Stmt(DivZero)>>}
PointClass(tail) ==
    StmtClass("P", <<StmtFunction("init", <<"a">>,
                        <<Stmt(ExprSet(ExprThis, "f", Ref("a")))>> \o tail)>>)
ConstructorPrograms ==
    {<<PointClass(tail), Stmt(ExprGet(ExprCall(Ref("P"), <<Num(3)>>), "f"))>> :
        tail \in InitTails}
    \cup {<<PointClass(<<>>), Stmt(ExprCall(Ref("P"), <<>>))>>,
          <<StmtClass("E", <<>>), Stmt(ExprCall(Ref("E"), <<>>))>>}

(* fun make() { let n = 0; fun tick() { n = n + 1; return n; } return tick; } *)
TickBody ==
    <<Stmt(ExprAssign("n", ExprBinary(Ref("n"), "Plus", Num(1)))), StmtReturn(Some(Ref("n")))>>
MakeFunction ==
    StmtFunction("make", <<>>,
        <<Let("n", Num(0)), StmtFunction("tick", <<>>, TickBody), StmtReturn(Some(Ref("tick")))>>)
Tick(f) == Stmt(ExprCall(Ref(f), <<>>))
ClosurePrograms ==
    {<<MakeFunction, Let("t", ExprCall(Ref("make"), <<>>)), Tick("t"), Tick("t"), Tick("t")>>,
     <<MakeFunction, Let("t", ExprCall(Ref("make"), <<>>)), Let("u", ExprCall(Ref("make"), <<>>)),
       Tick("t"), Tick("t"), Tick("u")>>,
     <<StmtVar("t", None),
       StmtBlock(<<Let("n", Num(0)), StmtFunction("tick", <<>>, TickBody),
                   Stmt(ExprAssign("t", Ref("tick")))>>),
       Tick("t"), Tick("t")>>}

(* Blocks that define, shadow and read. *)
ScopePrograms ==
    {<<Let("a", Num(1)), StmtBlock(<<Let("a", Num(2)), Let("b", Num(3))>>), Stmt(Ref("a"))>>,
     <<StmtBlock(<<Let("b", Num(3))>>), Stmt(Ref("b"))>>,
     <<StmtFunction("f", <<>>, <<StmtBlock(<<Let("b", Num(1)), StmtReturn(Some(Ref("b")))>>)>>),
       Stmt(ExprCall(Ref("f"), <<>>)), Stmt(Ref("b"))>>}

(* Assignments from inside blocks, to bound and to unbound names. *)
AssignPrograms ==
    {<<Let("a", Num(1)), StmtBlock(<<Stmt(ExprAssign("a", Num(2)))>>), Stmt(Ref("a"))>>,
     <<Let("a", Num(1)), StmtBlock(<<Let("a", Num(2)), Stmt(ExprAssign("a", Num(3)))>>),
       Stmt(Ref("a"))>>,
     <<StmtBlock(<<Stmt(ExprAssign("z", Num(5)))>>)>>}

(* let x = 0; <a> and/or (x = 1); x;   and   <a> and/or 1 / 0; *)
LeftValues == {VBoolean(FALSE), VBoolean(TRUE), VNumber(0), VString("s"), VNull}
LogicalPrograms ==
    {<<Let("x", Num(0)),
       Stmt(ExprLogical(ExprLiteral(a), op, ExprAssign("x", Num(1)))),
       Stmt(Ref("x"))>> : a \in {VBoolean(FALSE), VString("s")}, op \in {"And", "Or"}}
    \cup {<<Stmt(ExprLogical(ExprLiteral(VNumber(0)), op, DivZero))>> : op \in {"And", "Or"}}

Programs ==
    BlockErrorPrograms \cup ProbePrograms \cup LastValuePrograms \cup MethodPrograms
    \cup ConstructorPrograms \cup ClosurePrograms \cup ScopePrograms \cup AssignPrograms
    \cup LogicalPrograms

----------------------------------------------------------------------------
(* The interpreter as a state machine. *)

Current == State(environment, envs, functions, classes, instances)

(* Before the first interpret call there is no value: Ok(None). *)
NoOutcome == Ok(None)

(* Interpreter::new: a fresh global environment. *)
InitInterpreter ==
    /\ environment = 1
    /\ envs = <<Environment_new>>
    /\ functions = <<>>
    /\ classes = <<>>
    /\ instances = <<>>
    /\ program = <<>>
    /\ outcome = NoOutcome
    /\ calls = 0

(* The scanner before any source is given. *)
IdleScanner ==
    /\ source = <<>>
    /\ start = 0
    /\ current = 0
    /\ line = 1
    /\ tokens = <<>>
    /\ scanned = [at |-> "idle"]

(* main is not running: the interpreter and the scanner are used as a      *)
(* library.                                                                *)
IdleMain ==
    /\ pc = "idle"
    /\ argv = 0
    /\ parsed = None
    /\ exit_code = None
    /\ stdout = <<>>
    /\ stderr = <<>>
    /\ parser = None
    /\ parse_statements = <<>>

(* What interpreter.interpret(&statements) does to the interpreter. *)
Interpreted(statements) ==
    /\ calls < MaxCalls
    /\ LET x == interpret(Current, statements)
       IN /\ environment' = x.st.environment
          /\ envs' = x.st.envs
          /\ functions' = x.st.functions
          /\ classes' = x.st.classes
          /\ instances' = x.st.instances
          /\ outcome' = x.r
    /\ program' = statements
    /\ calls' = calls + 1

(* A call interpreter.interpret(&statements). *)
Interpret(statements) ==
    /\ Interpreted(statements)
    /\ UNCHANGED <<scanVars, mainVars>>

Init == InitInterpreter /\ IdleScanner /\ IdleMain

Next == \E statements \in Programs : Interpret(statements)

Spec == Init /\ [][Next]_vars

(* Single expressions on a fresh interpreter: <a> <op> <b>; *)
Operands ==
    {VNumber(-7), VNumber(0), VNumber(2), VNumber(3), VString("a"), VBoolean(TRUE),
     VNull, VArray(<<>>)}
ArithmeticOps == {"Minus", "Star", "Slash", "Modulo"}
BinaryPrograms ==
    {<<Stmt(ExprBinary(ExprLiteral(a), op, ExprLiteral(b)))>> :
        a \in Operands, b \in Operands, op \in ArithmeticOps}

ExprPrograms == BinaryPrograms

NextExpr == \E statements \in ExprPrograms : calls = 0 /\ Interpret(statements)

SpecExpr == Init /\ [][NextExpr]_vars

(* Programs run once each on a fresh interpreter, one family per property. *)

(* let x = 0; fun f(<params>) { x = 1; return [<params>]; } f(<args>); *)
ParamLists == {<<>>, <<"a">>, <<"a", "b">>, <<"a", "a">>}
CallArgValues == {VNumber(1), VNumber(2)}
CallArgLists == UNION {[1..n -> CallArgValues] : n \in 0..3}
Literals(values) == [j \in 1..Len(values) |-> ExprLiteral(values[j])]
Refs(names) == [j \in 1..Len(names) |-> Ref(names[j])]
CallProgram(params, args) ==
    <<Let("x", Num(0)),
      StmtFunction("f", params,
                   <<Stmt(ExprAssign("x", Num(1))), StmtReturn(Some(ExprArray(Refs(params))))>>),
      Stmt(ExprCall(Ref("f"), Literals(args)))>>
CallPrograms == {CallProgram(params, args) : params \in ParamLists, args \in CallArgLists}

(* A literal expression for a value: arrays as array literals. *)
LiteralExpr(v) == IF v.k = "Array" THEN ExprArray(Literals(v.items)) ELSE ExprLiteral(v)

(* fun name() { t = t * 10 + digit; return <v>; } *)
Traced(name, digit, v) ==
    StmtFunction(name, <<>>,
                 <<Stmt(ExprAssign("t", ExprBinary(ExprBinary(Ref("t"), "Star", Num(10)),
                                                   "Plus", Num(digit)))),
                   StmtReturn(Some(LiteralExpr(v)))>>)
Invoke(name) == ExprCall(Ref(name), <<>>)

(* let t = 0; fun A() {..} fun I() {..} A()[I()]; *)
IndexedValues ==
    {VArray(<<>>), VArray(<<VNumber(5)>>), VArray(<<VNumber(5), VString("s")>>),
     VNumber(7), VString("s"), VNull, VBoolean(TRUE)}
IndexValues ==
    {VNumber(-1), VNumber(0), VNumber(1), VNumber(2), VString("s"), VNull, VBoolean(TRUE),
     VArray(<<VNumber(0)>>)}
IndexProgram(a, i) ==
    <<Let("t", Num(0)), Traced("A", 1, a), Traced("I", 2, i),
      Stmt(ExprIndex(Invoke("A"), Invoke("I")))>>
IndexPrograms == {IndexProgram(a, i) : a \in IndexedValues, i \in IndexValues}

(* fun f() {} class K {} and then one use of an expression as a condition:*)
(* if, while, !, and, or.  Each case is an expression and whether the      *)
(* value it yields is to count as true.                                    *)
TruthCases ==
    {[x |-> ExprLiteral(v), truthy |-> FALSE] :
        v \in {VBoolean(FALSE), VNull, VNone, VNumber(0), VString(""), VArray(<<>>)}}
    \cup
    {[x |-> ExprLiteral(v), truthy |-> TRUE] :
        v \in {VBoolean(TRUE), VNumber(1), VNumber(-1), VString("s"), VString("0"),
               VArray(<<VNumber(0)>>), VArray(<<VArray(<<>>)>>)}}
    \cup
    {[x |-> x, truthy |-> TRUE] : x \in {Ref("f"), Ref("K"), ExprCall(Ref("K"), <<>>)}}
TruthContexts == {"if", "while", "not", "and", "or"}
TruthProgram(x, context) ==
    <<StmtFunction("f", <<>>, <<>>), StmtClass("K", <<>>)>> \o
    CASE context = "if" -> <<StmtIf(x, Stmt(Str("then")), Some(Stmt(Str("else"))))>>
      [] context = "while" ->
            <<Let("go", x), Let("r", Str("skipped")),
              StmtWhile(Ref("go"),
                        StmtBlock(<<Stmt(ExprAssign("r", Str("ran"))),
                                    Stmt(ExprAssign("go", Bool(FALSE)))>>)),
              Stmt(Ref("r"))>>
      [] context = "not" -> <<Stmt(ExprUnary("Not", x))>>
      [] context = "and" -> <<Stmt(ExprLogical(x, "And", Str("right")))>>
      [] context = "or" -> <<Stmt(ExprLogical(x, "Or", Str("right")))>>
TruthPrograms == {TruthProgram(c.x, context) : c \in TruthCases, context \in TruthContexts}

(* let x = 1; <return e; x = 98; in some nesting> x = 99; 5;  Each case is *)
(* the returned expression, if any, and its value.                         *)
ReturnCases ==
    {[x |-> None, v |-> VNull],
     [x |-> Some(Num(7)), v |-> VNumber(7)],
     [x |-> Some(Bool(FALSE)), v |-> VBoolean(FALSE)],
     [x |-> Some(ExprLiteral(VNull)), v |-> VNull],
     [x |-> Some(Ref("x")), v |-> VNumber(1)],
     [x |-> Some(ExprArray(<<Ref("x"), Num(2)>>)), v |-> VArray(<<VNumber(1), VNumber(2)>>)]}
ReturnNestings == {"top", "block", "blocks", "then", "else", "while", "if in while"}
Nested(nesting, stmts) ==
    CASE nesting = "top" -> stmts
      [] nesting = "block" -> <<StmtBlock(stmts)>>
      [] nesting = "blocks" -> <<StmtBlock(<<StmtBlock(stmts), Stmt(ExprAssign("x", Num(97)))>>)>>
      [] nesting = "then" -> <<StmtIf(Bool(TRUE), StmtBlock(stmts), None)>>
      [] nesting = "else" -> <<StmtIf(Num(0), Stmt(Num(3)), Some(StmtBlock(stmts)))>>
      [] nesting = "while" -> <<StmtWhile(Bool(TRUE), StmtBlock(stmts))>>
      [] nesting = "if in while" ->
            <<StmtWhile(Bool(TRUE),
                        StmtBlock(<<StmtIf(Ref("x"), stmts[1], None),
                                    Stmt(ExprAssign("x", Num(96)))>>))>>
ReturnProgram(x, nesting) ==
    <<Let("x", Num(1))>> \o
    Nested(nesting, <<StmtReturn(x), Stmt(ExprAssign("x", Num(98)))>>) \o
    <<Stmt(ExprAssign("x", Num(99))), Stmt(Num(5))>>
ReturnPrograms == {ReturnProgram(c.x, nesting) : c \in ReturnCases, nesting \in ReturnNestings}

(* fun f() {} fun g() {} class K { fun init() { this.v = 1; } } class L {} *)
(* let o = K(); let p = K(); let q = o; <a> == <b>;   or   <a> != <b>;     *)
(* Each case is an expression and a name for the value it denotes: two     *)
(* cases denote the same value exactly when the names agree.               *)
EqualityPrelude ==
    <<StmtFunction("f", <<>>, <<>>), StmtFunction("g", <<>>, <<>>),
      StmtClass("K", <<StmtFunction("init", <<>>,
                                    <<Stmt(ExprSet(ExprThis, "v", Num(1)))>>)>>),
      StmtClass("L", <<>>),
      Let("o", ExprCall(Ref("K"), <<>>)), Let("p", ExprCall(Ref("K"), <<>>)),
      Let("q", Ref("o"))>>
EqualityCases ==
    {[x |-> Num(1), id |-> "1"], [x |-> Num(2), id |-> "2"],
     [x |-> Str("1"), id |-> "'1'"], [x |-> Bool(TRUE), id |-> "true"],
     [x |-> ExprLiteral(VNull), id |-> "null"], [x |-> ExprLiteral(VNone), id |-> "none"],
     [x |-> ExprArray(<<>>), id |-> "[]"], [x |-> ExprArray(<<Num(1)>>), id |-> "[1]"],
     [x |-> ExprArray(<<Num(1), Num(2)>>), id |-> "[1, 2]"],
     [x |-> ExprArray(<<ExprArray(<<Num(1)>>)>>), id |-> "[[1]]"],
     [x |-> Ref("f"), id |-> "f"], [x |-> Ref("g"), id |-> "g"],
     [x |-> Ref("K"), id |-> "K"], [x |-> Ref("L"), id |-> "L"],
     [x |-> Ref("o"), id |-> "o"], [x |-> Ref("p"), id |-> "p"], [x |-> Ref("q"), id |-> "o"],
     [x |-> ExprArray(<<Ref("o")>>), id |-> "[o]"],
     [x |-> ExprArray(<<Ref("p")>>), id |-> "[p]"],
     [x |-> ExprArray(<<Ref("q")>>), id |-> "[o]"]}
EqualityProgram(a, op, b) == EqualityPrelude \o <<Stmt(ExprBinary(a, op, b))>>
EqualityPrograms ==
    {EqualityProgram(a.x, op, b.x) :
        a \in EqualityCases, b \in EqualityCases, op \in {"EqualEqual", "NotEqual"}}

(* class K { fun m() { return 1; } fun n() { return 2; } } fun f() {}      *)
(* let o = K(); <up to two writes o.name = v;> and then a read o.name; or  *)
(* nothing more; or a read or a write on something that is no instance.    *)
MethodM == StmtFunction("m", <<>>, <<StmtReturn(Some(Num(1)))>>)
MethodN == StmtFunction("n", <<>>, <<StmtReturn(Some(Num(2)))>>)
PropertyPrelude ==
    <<StmtClass("K", <<MethodM, MethodN>>), StmtFunction("f", <<>>, <<>>),
      Let("o", ExprCall(Ref("K"), <<>>))>>
PropertyWrites ==
    {[name |-> "m", v |-> VNumber(5)], [name |-> "v", v |-> VNumber(6)],
     [name |-> "v", v |-> VNull]}
WriteLists == UNION {[1..n -> PropertyWrites] : n \in 0..2}
PropertyNames == {"m", "n", "v", "w"}
WriteStmts(writes) ==
    [j \in 1..Len(writes) |-> Stmt(ExprSet(Ref("o"), writes[j].name, ExprLiteral(writes[j].v)))]
ReadProgram(writes, name) ==
    PropertyPrelude \o WriteStmts(writes) \o <<Stmt(ExprGet(Ref("o"), name))>>
WriteProgram(writes) == PropertyPrelude \o WriteStmts(writes)
NonInstances ==
    {Num(1), Str("o"), ExprLiteral(VNull), Ref("K"), Ref("f"), ExprArray(<<Ref("o")>>)}
BadReadProgram(x) == PropertyPrelude \o <<Stmt(ExprGet(x, "m"))>>
BadWriteProgram(x) ==
    PropertyPrelude \o
    <<Stmt(ExprSet(x, "m", ExprSet(Ref("o"), "seen", Num(1))))>>
PropertyPrograms ==
    {ReadProgram(writes, name) : writes \in WriteLists, name \in PropertyNames}
    \cup {WriteProgram(writes) : writes \in WriteLists \ {<<>>}}
    \cup {BadReadProgram(x) : x \in NonInstances}
    \cup {BadWriteProgram(x) : x \in NonInstances}

(* let t = 0; let x = 1; fun h(a, b) {..4..} fun s1() {..1..} fun s2()      *)
(* {..2..} fun s3() {..3..} and one expression over s1(), s2(), s3().  Each *)
(* s<j> appends its digit j to the trace t and then yields a value or, in   *)
(* mode "fail", divides by zero; s1 of a call yields the function h, which  *)
(* appends 4.                                                               *)
Trace(digit) ==
    Stmt(ExprAssign("t", ExprBinary(ExprBinary(Ref("t"), "Star", Num(10)), "Plus", Num(digit))))
Slot(j, mode, x) ==
    StmtFunction(CASE j = 1 -> "s1" [] j = 2 -> "s2" [] j = 3 -> "s3", <<>>,
                 <<Trace(j), StmtReturn(Some(IF mode = "fail" THEN DivZero ELSE x))>>)
S1 == Invoke("s1")
S2 == Invoke("s2")
S3 == Invoke("s3")
OrderForms ==
    {"plus", "less", "equal", "slash", "left nested", "right nested", "array", "call",
     "assign"}
SlotsOf(form) == IF form \in {"plus", "less", "equal", "slash"} THEN 2
                 ELSE IF form = "assign" THEN 1 ELSE 3
SlotModes(form) == [1..SlotsOf(form) -> {"ok", "fail"}]
OrderExpr(form) ==
    CASE form = "plus" -> ExprBinary(S1, "Plus", S2)
      [] form = "less" -> ExprBinary(S1, "Less", S2)
      [] form = "equal" -> ExprBinary(S1, "EqualEqual", S2)
      [] form = "slash" -> ExprBinary(S1, "Slash", S2)
      [] form = "left nested" -> ExprBinary(ExprBinary(S1, "Minus", S2), "Minus", S3)
      [] form = "right nested" -> ExprBinary(S1, "Minus", ExprGrouping(ExprBinary(S2, "Minus", S3)))
      [] form = "array" -> ExprArray(<<S1, S2, S3>>)
      [] form = "call" -> ExprCall(S1, <<S2, S3>>)
      [] form = "assign" -> ExprAssign("x", S1)
OrderProgram(form, modes) ==
    <<Let("t", Num(0)), Let("x", Num(1)), Let("seen", Num(0)),
      StmtFunction("h", <<"a", "b">>,
                   <<Trace(4), StmtReturn(Some(ExprBinary(Ref("a"), "Minus", Ref("b"))))>>)>>
    \o [j \in 1..SlotsOf(form) |->
            Slot(j, modes[j],
                 IF form = "call" /\ j = 1 THEN Ref("h")
                 ELSE IF form = "assign"
                 THEN ExprBinary(ExprAssign("seen", Ref("x")), "Plus", Num(j))
                 ELSE Num(j))]
    \o <<Stmt(OrderExpr(form))>>
OrderPrograms ==
    UNION {{OrderProgram(form, modes) : modes \in SlotModes(form)} : form \in OrderForms}

(* [let x = 1;] let got = 0; let seen = 0; fun read() { <reads x> }        *)
(* <a caller with its own x = 2: got = read(); seen = x;>  [got, seen];    *)
LexicalCases ==
    [global : BOOLEAN, caller : {"block", "function", "parameter", "loop"},
     body : {"return", "value", "nested"}]

(* return x;   x;   while (true) { { return x; } } *)
ReadBody(c) ==
    CASE c.body = "return" -> <<StmtReturn(Some(Ref("x")))>>
      [] c.body = "value" -> <<Stmt(Ref("x"))>>
      [] c.body = "nested" ->
            <<StmtWhile(Bool(TRUE), StmtBlock(<<StmtBlock(<<StmtReturn(Some(Ref("x")))>>)>>))>>

(* got = read(); seen = x; *)
CallAndLook ==
    <<Stmt(ExprAssign("got", ExprCall(Ref("read"), <<>>))), Stmt(ExprAssign("seen", Ref("x")))>>

(* { let x = 2; .. }   fun caller() { let x = 2; .. } caller();            *)
(* fun caller(x) { .. } caller(2);                                         *)
(* let i = 0; while (i < 1) { let x = 2; .. i = i + 1; }                   *)
Caller(c) ==
    CASE c.caller = "block" -> <<StmtBlock(<<Let("x", Num(2))>> \o CallAndLook)>>
      [] c.caller = "function" ->
            <<StmtFunction("caller", <<>>, <<Let("x", Num(2))>> \o CallAndLook),
              Stmt(ExprCall(Ref("caller"), <<>>))>>
      [] c.caller = "parameter" ->
            <<StmtFunction("caller", <<"x">>, CallAndLook),
              Stmt(ExprCall(Ref("caller"), <<Num(2)>>))>>
      [] c.caller = "loop" ->
            <<Let("i", Num(0)),
              StmtWhile(ExprBinary(Ref("i"), "Less", Num(1)),
                        StmtBlock(<<Let("x", Num(2))>> \o CallAndLook
                                    \o <<Stmt(ExprAssign("i", ExprBinary(Ref("i"), "Plus",
                                                                        Num(1))))>>))>>

LexicalProgram(c) ==
    (IF c.global THEN <<Let("x", Num(1))>> ELSE <<>>)
        \o <<Let("got", Num(0)), Let("seen", Num(0)), StmtFunction("read", <<>>, ReadBody(c))>>
        \o Caller(c)
        \o <<Stmt(ExprArray(<<Ref("got"), Ref("seen")>>))>>

LexicalPrograms == {LexicalProgram(c) : c \in LexicalCases}

(* Statements of a function body, each with what it produces when run:    *)
(* <<v>> for a value, <<>> for none.                                       *)
BodyStatements ==
    {[stmt |-> Stmt(Num(1)), produces |-> Some(VNumber(1))],
     [stmt |-> Stmt(Str("s")), produces |-> Some(VString("s"))],
     [stmt |-> Stmt(ExprLiteral(VNull)), produces |-> Some(VNull)],
     [stmt |-> Stmt(ExprAssign("g", Num(7))), produces |-> Some(VNumber(7))],
     [stmt |-> Let("y", Num(9)), produces |-> None],
     [stmt |-> StmtFunction("h", <<>>, <<Stmt(Num(8))>>), produces |-> None],
     [stmt |-> StmtIf(Bool(FALSE), Stmt(Num(3)), None), produces |-> None],
     [stmt |-> StmtWhile(Bool(FALSE), Stmt(Num(4))), produces |-> None],
     [stmt |-> StmtBlock(<<>>), produces |-> None],
     [stmt |-> StmtBlock(<<Stmt(Num(5)), Let("z", Num(0))>>), produces |-> None],
     [stmt |-> StmtBlock(<<Stmt(Num(5))>>), produces |-> Some(VNumber(5))],
     [stmt |-> StmtIf(Bool(TRUE), Stmt(Num(6)), None), produces |-> Some(VNumber(6))]}

MaxBody == 2

Bodies == UNION {[1..n -> BodyStatements] : n \in 0..MaxBody}

(* let g = 0; fun f() { <body> } f(); *)
BodyProgram(body) ==
    <<Let("g", Num(0)),
      StmtFunction("f", <<>>, [j \in 1..Len(body) |-> body[j].stmt]),
      Stmt(ExprCall(Ref("f"), <<>>))>>

BodyPrograms == {BodyProgram(body) : body \in Bodies}

EvalPrograms ==
    CallPrograms \cup IndexPrograms \cup TruthPrograms \cup ReturnPrograms
        \cup EqualityPrograms \cup PropertyPrograms \cup OrderPrograms
        \cup LexicalPrograms \cup BodyPrograms

NextEval == \E statements \in EvalPrograms : calls = 0 /\ Interpret(statements)

SpecEval == Init /\ [][NextEval]_vars

----------------------------------------------------------------------------
(* The scanner as a state machine: one step per iteration of tokenize's    *)
(* loop.                                                                   *)

MaxSrcLen == 3   \* length of the sources enumerated character by character

Alphabet == {"\"", "\n", "/", "=", "!", "<", ">", "1", "a", " ", "#", "("}

(* Integer literals around the width of isize, alone and after a token. *)
Nines(n) == [j \in 1..n |-> "9"]
LongSources ==
    {Nines(20), <<"(">> \o Nines(20), <<"0", "0">> \o Nines(20),
     <<"9", "2", "2", "3", "3", "7", "2", "0", "3", "6", "8", "5", "4", "7", "7", "5", "8",
       "0", "8">>}

Sources == UNION {[1..n -> Alphabet] : n \in 0..MaxSrcLen} \cup LongSources

ScannerNow == Scanner(source, start, current, line)

(* Scanner::new(source) and the entry of tokenize. *)
InitScanner ==
    /\ source \in Sources
    /\ start = 0
    /\ current = 0
    /\ line = 1
    /\ tokens = <<>>
    /\ scanned = [at |-> "loop"]

(* One iteration of `while !self.is_at_end()`: mark the start, consume a   *)
(* character, classify it; an error ends tokenize and drops the tokens.    *)
ScanStep ==
    /\ scanned.at = "loop"
    /\ ~is_at_end(ScannerNow)
    /\ \E a \in {advance([ScannerNow EXCEPT !.start = current])} :
       \E x \in {scan_char(a.sc, a.c)} :
          /\ start' = x.sc.start
          /\ current' = x.sc.current
          /\ line' = x.sc.line
          /\ IF x.r.ok
             THEN tokens' = tokens \o x.r.val /\ scanned' = scanned
             ELSE tokens' = <<>> /\ scanned' = [at |-> "done", r |-> x.r]
    /\ UNCHANGED <<source, interpVars, mainVars>>

(* The end of the loop: push Eof and return the tokens. *)
ScanEof ==
    /\ scanned.at = "loop"
    /\ is_at_end(ScannerNow)
    /\ tokens' = Append(tokens, Token("Eof", VNone, line))
    /\ scanned' = [at |-> "done", r |-> Ok(tokens')]
    /\ UNCHANGED <<source, start, current, line, interpVars, mainVars>>

InitScan == InitInterpreter /\ InitScanner /\ IdleMain

NextScan == ScanStep \/ ScanEof

(* tokenize runs to its return: a step that can be taken is taken. *)
SpecScan == InitScan /\ [][NextScan]_vars /\ WF_vars(NextScan)

----------------------------------------------------------------------------
(* The driver: main.rs.                                                    *)

(* impl Display for Value (token.rs), with the heaps the Rc's point into.  *)
RECURSIVE display(_, _)
RECURSIVE join(_, _)
join(st, values) ==
    IF Len(values) = 0 THEN ""
    ELSE IF Len(values) = 1 THEN display(st, values[1])
    ELSE display(st, values[1]) \o ", " \o join(st, Tail(values))

display(st, value) ==
    CASE value.k = "String" -> value.s
      [] value.k = "Number" -> ToString(value.n)
      [] value.k = "Boolean" -> IF value.b THEN "true" ELSE "false"
      [] value.k = "Array" -> "[" \o join(st, value.items) \o "]"
      [] value.k = "Function" -> "<fn>"
      [] value.k = "Class" -> "<class " \o st.classes[value.c].name \o ">"
      [] value.k = "Instance" ->
            "<" \o st.classes[st.instances[value.i].class].name \o " instance>"
      [] value.k \in {"Null", "None"} -> "null"

(* impl Display for VeonError (error.rs): the stage, then [type:message]. *)
display_error(stage, err) ==
    "Error while " \o stage \o ": [" \o err.tty \o ":" \o err.msg \o "]"

(* process::exit(code) after eprintln!(text). *)
Fail(text, code) ==
    /\ stderr' = Append(stderr, text)
    /\ exit_code' = Some(code)
    /\ pc' = "exit"

(* The source files main is run on, one character per element. *)

(* the empty file *)
SrcEmpty ==
    <<>>

(* 1 + 2; *)
SrcSum ==
    <<"1", " ", "+", " ", "2", ";">>

(* let x = 1; *)
SrcLet ==
    <<"l", "e", "t", " ", "x", " ", "=", " ", "1", ";">>

(* 7; let y = 0; *)
SrcValueThenLet ==
    <<"7", ";", " ", "l", "e", "t", " ", "y", " ", "=", " ", "0", ";">>

(* "ab"; *)
SrcString ==
    <<"\"", "a", "b", "\"", ";">>

(* [1, true]; *)
SrcArray ==
    <<"[", "1", ",", " ", "t", "r", "u", "e", "]", ";">>

(* return 5; *)
SrcReturn ==
    <<"r", "e", "t", "u", "r", "n", " ", "5", ";">>

(* return; *)
SrcBareReturn ==
    <<"r", "e", "t", "u", "r", "n", ";">>

(* fun f() {} f; *)
SrcFunction ==
    <<"f", "u", "n", " ", "f", "(", ")", " ", "{", "}", " ", "f", ";">>

(* class A {} A; *)
SrcClass ==
    <<"c", "l", "a", "s", "s", " ", "A", " ", "{", "}", " ", "A", ";">>

(* class A {} A(); *)
SrcInstance ==
    <<"c", "l", "a", "s", "s", " ", "A", " ", "{", "}", " ", "A", "(", ")",
      ";">>

(* @ *)
SrcBadChar ==
    <<"@">>

(* 1; @ *)
SrcBadCharLater ==
    <<"1", ";", " ", "@">>

(* "ab *)
SrcOpenString ==
    <<"\"", "a", "b">>

(* 1 +; *)
SrcNoOperand ==
    <<"1", " ", "+", ";">>

(* (1; *)
SrcNoParen ==
    <<"(", "1", ";">>

(* 1; 2 *)
SrcNoSemicolon ==
    <<"1", ";", " ", "2">>

(* 1 / 0; *)
SrcDivZero ==
    <<"1", " ", "/", " ", "0", ";">>

(* x; *)
SrcUndefined ==
    <<"x", ";">>

(* 1; x; *)
SrcValueThenError ==
    <<"1", ";", " ", "x", ";">>

PipelineSources ==
    {SrcEmpty, SrcSum, SrcLet, SrcValueThenLet, SrcString, SrcArray,
     SrcReturn, SrcBareReturn, SrcFunction, SrcClass, SrcInstance,
     SrcBadChar, SrcBadCharLater, SrcOpenString, SrcNoOperand, SrcNoParen,
     SrcNoSemicolon, SrcDivZero, SrcUndefined, SrcValueThenError}

(* The pieces of the sources with a for statement. *)

(* `let t = 0; ` *)
TextLetT ==
    <<"l", "e", "t", " ", "t", " ", "=", " ", "0", ";", " ">>

(* `let i = 1; ` *)
TextLetI1 ==
    <<"l", "e", "t", " ", "i", " ", "=", " ", "1", ";", " ">>

(* `let i = 5; ` *)
TextLetI5 ==
    <<"l", "e", "t", " ", "i", " ", "=", " ", "5", ";", " ">>

(* `for (` *)
TextFor ==
    <<"f", "o", "r", " ", "(">>

(* `let i = 1;` *)
TextInitLet ==
    <<"l", "e", "t", " ", "i", " ", "=", " ", "1", ";">>

(* `i = 1;` *)
TextInitExpr ==
    <<"i", " ", "=", " ", "1", ";">>

(* `;` *)
TextSemicolon ==
    <<";">>

(* ` i < 3` *)
TextCond ==
    <<" ", "i", " ", "<", " ", "3">>

(* ` i = i + 1` *)
TextInc ==
    <<" ", "i", " ", "=", " ", "i", " ", "+", " ", "1">>

(* `) ` *)
TextClose ==
    <<")", " ">>

(* `if (i == 3) return t; ` *)
TextGuard ==
    <<"i", "f", " ", "(", "i", " ", "=", "=", " ", "3", ")", " ", "r", "e",
      "t", "u", "r", "n", " ", "t", ";", " ">>

(* `t = t * 10 + i; ` *)
TextCore ==
    <<"t", " ", "=", " ", "t", " ", "*", " ", "1", "0", " ", "+", " ", "i",
      ";", " ">>

(* `i = i + 1; ` *)
TextStep ==
    <<"i", " ", "=", " ", "i", " ", "+", " ", "1", ";", " ">>

(* `{ ` *)
TextOpen ==
    <<"{", " ">>

(* `} ` *)
TextEnd ==
    <<"}", " ">>

(* `t;` *)
TextTailT ==
    <<"t", ";">>

(* `i;` *)
TextTailI ==
    <<"i", ";">>

(* The for statements: which init there is, whether there is a condition *)
(* and an increment, and what is read after the loop.                      *)
ForCases ==
    [init : {"none", "let", "expr"}, cond : BOOLEAN, inc : BOOLEAN, tail : {"t", "i"}]

(* The body: it records i in t; without a condition it returns at i == 3,  *)
(* without an increment it steps i itself.                                 *)
ForBodyText(f) ==
    IF f.cond /\ f.inc THEN TextCore
    ELSE TextOpen \o (IF f.cond THEN <<>> ELSE TextGuard) \o TextCore
            \o (IF f.inc THEN <<>> ELSE TextStep) \o TextEnd

(* let t = 0; [let i = ..;] for (<init>;<cond>;<inc>) <body> <tail>; *)
ForSource(f) ==
    TextLetT
        \o (CASE f.init = "none" -> TextLetI1
              [] f.init = "expr" -> TextLetI5
              [] f.init = "let" -> <<>>)
        \o TextFor
        \o (CASE f.init = "none" -> TextSemicolon
              [] f.init = "expr" -> TextInitExpr
              [] f.init = "let" -> TextInitLet)
        \o (IF f.cond THEN TextCond ELSE <<>>) \o TextSemicolon
        \o (IF f.inc THEN TextInc ELSE <<>>) \o TextClose
        \o ForBodyText(f)
        \o (IF f.tail = "t" THEN TextTailT ELSE TextTailI)

ForSources == {ForSource(f) : f \in ForCases}

MainSources == PipelineSources \cup ForSources

(* fs::read_to_string: the file's text, or an I/O error. *)
ReadResults == {Ok(text) : text \in MainSources} \cup {Err("io", "No such file")}

(* The numbers of command-line arguments, the program's name included. *)
ArgCounts == {1, 2, 3}

(* The process starts in main with a fresh scanner and interpreter. *)
StartMain ==
    /\ pc = "start"
    /\ argv \in ArgCounts
    /\ parsed = None
    /\ exit_code = None
    /\ stdout = <<>>
    /\ stderr = <<>>
    /\ parser = None
    /\ parse_statements = <<>>

(* if args.len() != 2 { eprintln!(usage); process::exit(64) } *)
MainArgs ==
    /\ pc = "start"
    /\ IF argv # 2
       THEN Fail("Usage: veonep <file>", 64)
       ELSE pc' = "read" /\ UNCHANGED <<exit_code, stderr>>
    /\ UNCHANGED <<interpVars, scanVars, argv, parsed, stdout, parserVars>>

(* fs::read_to_string(&args[1]), then Scanner::new(source). *)
MainRead ==
    /\ pc = "read"
    /\ \E file \in ReadResults :
          IF file.ok
          THEN /\ source' = file.val
               /\ scanned' = [at |-> "loop"]
               /\ pc' = "scan"
               /\ UNCHANGED <<exit_code, stderr>>
          ELSE /\ Fail("Failed to read: " \o file.msg, 65)
               /\ UNCHANGED <<source, scanned>>
    /\ UNCHANGED <<interpVars, start, current, line, tokens, argv, parsed, stdout, parserVars>>

(* match scanner.tokenize(): the tokens go on to the parser, an error ends *)
(* the process with 65.                                                    *)
MainScanned ==
    /\ pc = "scan"
    /\ scanned.at = "done"
    /\ IF scanned.r.ok
       THEN pc' = "parse" /\ UNCHANGED <<exit_code, stderr>>
       ELSE Fail(display_error("scanning", scanned.r), 65)
    /\ UNCHANGED <<interpVars, scanVars, argv, parsed, stdout, parserVars>>

(* match Parser::new(tokens).parse(): the statements go on to the          *)
(* interpreter, an error ends the process with 65.                         *)
MainParse ==
    /\ pc = "parse"
    /\ parsed' = Some(parse(scanned.r.val).r)
    /\ IF Unwrap(parsed').ok
       THEN pc' = "interpret" /\ UNCHANGED <<exit_code, stderr>>
       ELSE Fail(display_error("parsing", Unwrap(parsed')), 65)
    /\ UNCHANGED <<interpVars, scanVars, argv, stdout, parserVars>>

(* match interpreter.interpret(&statements): a value is printed, nothing   *)
(* is printed for None, an error ends the process with 70.                 *)
MainInterpret ==
    /\ pc = "interpret"
    /\ Interpreted(Unwrap(parsed).val)
    /\ IF outcome'.ok
       THEN /\ stdout' = IF IsSome(outcome'.val)
                         THEN Append(stdout,
                                     display([classes |-> classes', instances |-> instances'],
                                             Unwrap(outcome'.val)))
                         ELSE stdout
            /\ exit_code' = Some(0)
            /\ pc' = "exit"
            /\ stderr' = stderr
       ELSE Fail(display_error("evaluating", outcome'), 70) /\ stdout' = stdout
    /\ UNCHANGED <<scanVars, argv, parsed, parserVars>>

InitMain == InitInterpreter /\ IdleScanner /\ StartMain

NextMain ==
    \/ MainArgs
    \/ MainRead
    \/ ScanStep
    \/ ScanEof
    \/ MainScanned
    \/ MainParse
    \/ MainInterpret

SpecMain == InitMain /\ [][NextMain]_vars

----------------------------------------------------------------------------
(* One interpreter used for several programs that open blocks, loop, call  *)
(* functions and methods, and return from inside them.                     *)

(* let g = 1; { let local = 2; g = local; } *)
ReuseBlock ==
    <<Let("g", Num(1)), StmtBlock(<<Let("local", Num(2)), Stmt(ExprAssign("g", Ref("local")))>>)>>

(* { let local = 1; { let inner = 2; return inner; } } *)
ReuseReturnInBlocks ==
    <<StmtBlock(<<Let("local", Num(1)),
                  StmtBlock(<<Let("inner", Num(2)), StmtReturn(Some(Ref("inner")))>>)>>)>>

(* let i = 0; while (i < 2) { let local = i; i = i + 1;                    *)
(*                            if (i == 2) { return local; } }              *)
ReuseReturnInLoop ==
    <<Let("i", Num(0)),
      StmtWhile(ExprBinary(Ref("i"), "Less", Num(2)),
                StmtBlock(<<Let("local", Ref("i")),
                            Stmt(ExprAssign("i", ExprBinary(Ref("i"), "Plus", Num(1)))),
                            StmtIf(ExprBinary(Ref("i"), "EqualEqual", Num(2)),
                                   StmtBlock(<<StmtReturn(Some(Ref("local")))>>), None)>>))>>

(* fun f(p) { let local = p; { return local; } } f(3); *)
ReuseCallReturns ==
    <<StmtFunction("f", <<"p">>,
                   <<Let("local", Ref("p")), StmtBlock(<<StmtReturn(Some(Ref("local")))>>)>>),
      Stmt(ExprCall(Ref("f"), <<Num(3)>>))>>

(* fun k(p) { let local = p; local; } k(3); *)
ReuseCallCompletes ==
    <<StmtFunction("k", <<"p">>, <<Let("local", Ref("p")), Stmt(Ref("local"))>>),
      Stmt(ExprCall(Ref("k"), <<Num(3)>>))>>

(* fun h(p) { { let local = p; while (true) { return local; } } }          *)
(* { let inner = h(1); return h(inner); }                                  *)
ReuseCallInBlock ==
    <<StmtFunction("h", <<"p">>,
                   <<StmtBlock(<<Let("local", Ref("p")),
                                 StmtWhile(Bool(TRUE), StmtBlock(<<StmtReturn(Some(Ref("local")))>>))>>)>>),
      StmtBlock(<<Let("inner", ExprCall(Ref("h"), <<Num(1)>>)),
                  StmtReturn(Some(ExprCall(Ref("h"), <<Ref("inner")>>)))>>)>>

(* class C { fun init(p) { this.v = p; } fun m() { let local = this.v;     *)
(* return local; } } let o = C(1); o.m();                                  *)
ReuseMethod ==
    <<StmtClass("C", <<StmtFunction("init", <<"p">>, <<Stmt(ExprSet(ExprThis, "v", Ref("p")))>>),
                       StmtFunction("m", <<>>, <<Let("local", ExprGet(ExprThis, "v")),
                                                StmtReturn(Some(Ref("local")))>>)>>),
      Let("o", ExprCall(Ref("C"), <<Num(1)>>)),
      Stmt(ExprCall(ExprGet(Ref("o"), "m"), <<>>))>>

(* { let local = 1; 1 / 0; } *)
ReuseBlockFails == <<StmtBlock(<<Let("local", Num(1)), Stmt(DivZero)>>)>>

(* The names the programs bind at the top level, and in blocks and calls. *)
TopLevelNames == {"g", "i", "f", "k", "h", "C", "o"}
LocalNames == {"local", "inner", "p", "this"}

(* <name>;  this; *)
ReuseProbe(n) == IF n = "this" THEN <<Stmt(ExprThis)>> ELSE <<Stmt(Ref(n))>>
ReuseProbes == {ReuseProbe(n) : n \in TopLevelNames \cup LocalNames}

ReusePrograms ==
    {ReuseBlock, ReuseReturnInBlocks, ReuseReturnInLoop, ReuseCallReturns, ReuseCallCompletes,
     ReuseCallInBlock, ReuseMethod, ReuseBlockFails} \cup ReuseProbes

NextReuse == \E statements \in ReusePrograms : Interpret(statements)

SpecReuse == Init /\ [][NextReuse]_vars

----------------------------------------------------------------------------
(* The scanner and the parser on their own: Scanner::new(source).tokenize() *)
(* step by step, then Parser::new(tokens).parse().                          *)

(* The left-hand sides `<target> = ...`, each with the tree it parses to. *)
AssignTargets ==
    {[text |-> <<"a">>,
      tree |-> Ref("a")],
     [text |-> <<"a", ".", "b">>,
      tree |-> ExprGet(Ref("a"), "b")],
     [text |-> <<"a", ".", "b", ".", "c">>,
      tree |-> ExprGet(ExprGet(Ref("a"), "b"), "c")],
     [text |-> <<"f", "(", ")", ".", "x">>,
      tree |-> ExprGet(ExprCall(Ref("f"), <<>>), "x")],
     [text |-> <<"a", "[", "0", "]", ".", "x">>,
      tree |-> ExprGet(ExprIndex(Ref("a"), Num(0)), "x")],
     [text |-> <<"t", "h", "i", "s", ".", "x">>,
      tree |-> ExprGet(ExprThis, "x")],
     [text |-> <<"1">>,
      tree |-> Num(1)],
     [text |-> <<"\"", "s", "\"">>,
      tree |-> Str("s")],
     [text |-> <<"t", "r", "u", "e">>,
      tree |-> Bool(TRUE)],
     [text |-> <<"t", "h", "i", "s">>,
      tree |-> ExprThis],
     [text |-> <<"(", "a", ")">>,
      tree |-> ExprGrouping(Ref("a"))],
     [text |-> <<"a", "[", "0", "]">>,
      tree |-> ExprIndex(Ref("a"), Num(0))],
     [text |-> <<"f", "(", ")">>,
      tree |-> ExprCall(Ref("f"), <<>>)],
     [text |-> <<"a", ".", "b", "(", ")">>,
      tree |-> ExprCall(ExprGet(Ref("a"), "b"), <<>>)],
     [text |-> <<"[", "a", "]">>,
      tree |-> ExprArray(<<Ref("a")>>)],
     [text |-> <<"a", " ", "+", " ", "b">>,
      tree |-> ExprBinary(Ref("a"), "Plus", Ref("b"))],
     [text |-> <<"a", " ", "=", "=", " ", "b">>,
      tree |-> ExprBinary(Ref("a"), "EqualEqual", Ref("b"))],
     [text |-> <<"a", " ", "o", "r", " ", "b">>,
      tree |-> ExprLogical(Ref("a"), "Or", Ref("b"))],
     [text |-> <<"-", "a">>,
      tree |-> ExprUnary("Minus", Ref("a"))],
     [text |-> <<"!", "a">>,
      tree |-> ExprUnary("Not", Ref("a"))]}

(* The right-hand sides, each with its tree, or None when it holds an
   invalid target itself. *)
AssignValues ==
    {[text |-> <<"c">>,
      tree |-> Some(Ref("c"))],
     [text |-> <<"1", " ", "+", " ", "2">>,
      tree |-> Some(ExprBinary(Num(1), "Plus", Num(2)))],
     [text |-> <<"b", " ", "=", " ", "c">>,
      tree |-> Some(ExprAssign("b", Ref("c")))],
     [text |-> <<"b", ".", "x", " ", "=", " ", "c", " ", "=", " ", "1">>,
      tree |-> Some(ExprSet(Ref("b"), "x", ExprAssign("c", Num(1))))],
     [text |-> <<"1", " ", "=", " ", "c">>,
      tree |-> None],
     [text |-> <<"b", " ", "=", " ", "(", "c", ")", " ", "=", " ", "1">>,
      tree |-> None]}

(* <target> = <value>; *)
AssignSource(t, v) == t.text \o <<" ", "=", " ">> \o v.text \o <<";">>

AssignSources == {AssignSource(t, v) : t \in AssignTargets, v \in AssignValues}

(* The binary and logical operators with their token type and their rung *)
(* on the ladder, the loosest first.                                     *)
LadderOperators ==
    {[text |-> <<"o", "r">>, tty |-> "Or", rung |-> 1],
     [text |-> <<"a", "n", "d">>, tty |-> "And", rung |-> 2],
     [text |-> <<"=", "=">>, tty |-> "EqualEqual", rung |-> 3],
     [text |-> <<"!", "=">>, tty |-> "NotEqual", rung |-> 3],
     [text |-> <<"<">>, tty |-> "Less", rung |-> 4],
     [text |-> <<"<", "=">>, tty |-> "LessEqual", rung |-> 4],
     [text |-> <<">">>, tty |-> "Greater", rung |-> 4],
     [text |-> <<">", "=">>, tty |-> "GreaterEqual", rung |-> 4],
     [text |-> <<"+">>, tty |-> "Plus", rung |-> 5],
     [text |-> <<"-">>, tty |-> "Minus", rung |-> 5],
     [text |-> <<"*">>, tty |-> "Star", rung |-> 6],
     [text |-> <<"/">>, tty |-> "Slash", rung |-> 6],
     [text |-> <<"%">>, tty |-> "Modulo", rung |-> 6]}

(* Expressions with unary operators, call chains and several rungs, each *)
(* with the tree it is to parse to.                                      *)
LadderCases ==
    {[text |-> <<"2", " ", "+", " ", "3", " ", "*", " ", "4">>,
      tree |-> ExprBinary(Num(2), "Plus", ExprBinary(Num(3), "Star",
                 Num(4)))],
     [text |-> <<"-", "a", " ", "*", " ", "b">>,
      tree |-> ExprBinary(ExprUnary("Minus", Ref("a")), "Star", Ref("b"))],
     [text |-> <<"-", "a", " ", "+", " ", "b">>,
      tree |-> ExprBinary(ExprUnary("Minus", Ref("a")), "Plus", Ref("b"))],
     [text |-> <<"!", "a", " ", "=", "=", " ", "b">>,
      tree |-> ExprBinary(ExprUnary("Not", Ref("a")), "EqualEqual",
                 Ref("b"))],
     [text |-> <<"!", "a", " ", "o", "r", " ", "b">>,
      tree |-> ExprLogical(ExprUnary("Not", Ref("a")), "Or", Ref("b"))],
     [text |-> <<"a", " ", "*", " ", "-", "b">>,
      tree |-> ExprBinary(Ref("a"), "Star", ExprUnary("Minus", Ref("b")))],
     [text |-> <<"a", " ", "-", " ", "-", "b">>,
      tree |-> ExprBinary(Ref("a"), "Minus", ExprUnary("Minus",
                 Ref("b")))],
     [text |-> <<"a", " ", "a", "n", "d", " ", "!", "b">>,
      tree |-> ExprLogical(Ref("a"), "And", ExprUnary("Not", Ref("b")))],
     [text |-> <<"!", "!", "a">>,
      tree |-> ExprUnary("Not", ExprUnary("Not", Ref("a")))],
     [text |-> <<"!", "-", "a">>,
      tree |-> ExprUnary("Not", ExprUnary("Minus", Ref("a")))],
     [text |-> <<"-", "!", "a">>,
      tree |-> ExprUnary("Minus", ExprUnary("Not", Ref("a")))],
     [text |-> <<"-", " ", "-", "a">>,
      tree |-> ExprUnary("Minus", ExprUnary("Minus", Ref("a")))],
     [text |-> <<"-", "a", ".", "b">>,
      tree |-> ExprUnary("Minus", ExprGet(Ref("a"), "b"))],
     [text |-> <<"-", "f", "(", "a", ")">>,
      tree |-> ExprUnary("Minus", ExprCall(Ref("f"), <<Ref("a")>>))],
     [text |-> <<"-", "a", "[", "0", "]">>,
      tree |-> ExprUnary("Minus", ExprIndex(Ref("a"), Num(0)))],
     [text |-> <<"!", "a", ".", "b", "(", "c", ")", "[", "0", "]">>,
      tree |-> ExprUnary("Not", ExprIndex(ExprCall(ExprGet(Ref("a"),
                 "b"), <<Ref("c")>>), Num(0)))],
     [text |-> <<"-", "a", ".", "b", " ", "*", " ", "c">>,
      tree |-> ExprBinary(ExprUnary("Minus", ExprGet(Ref("a"), "b")),
                 "Star", Ref("c"))],
     [text |-> <<"a", " ", "+", " ", "b", "(", "c", ")", " ", "*", " ", "d">>,
      tree |-> ExprBinary(Ref("a"), "Plus", ExprBinary(ExprCall(Ref("b"),
                 <<Ref("c")>>), "Star", Ref("d")))],
     [text |-> <<"a", " ", "o", "r", " ", "b", " ", "a", "n", "d", " ", "c", " ", "=", "=", " ", "d", " ", "<", " ", "e", " ", "+", " ", "f", " ", "*", " ", "-", "g">>,
      tree |-> ExprLogical(Ref("a"), "Or", ExprLogical(Ref("b"), "And",
                 ExprBinary(Ref("c"), "EqualEqual", ExprBinary(Ref("d"),
                 "Less", ExprBinary(Ref("e"), "Plus", ExprBinary(Ref("f"),
                 "Star", ExprUnary("Minus", Ref("g"))))))))],
     [text |-> <<"-", "a", " ", "*", " ", "b", " ", "+", " ", "c", " ", "<", " ", "d", " ", "=", "=", " ", "e", " ", "a", "n", "d", " ", "f", " ", "o", "r", " ", "g">>,
      tree |-> ExprLogical(ExprLogical(ExprBinary(ExprBinary(ExprBinary(ExprBinary(ExprUnary("Minus",
                 Ref("a")), "Star", Ref("b")), "Plus", Ref("c")), "Less",
                 Ref("d")), "EqualEqual", Ref("e")), "And", Ref("f")),
                 "Or", Ref("g"))]}

(* a <op1> b <op2> c; *)
LadderSource(op1, op2) ==
    <<"a", " ">> \o op1.text \o <<" ", "b", " ">> \o op2.text \o <<" ", "c", ";">>

LadderSources ==
    {LadderSource(op1, op2) : op1 \in LadderOperators, op2 \in LadderOperators}
        \cup {x.text \o <<";">> : x \in LadderCases}

ParseSources == AssignSources \cup LadderSources

(* A scanner made for one of the sources; no parser yet. *)
InitParse ==
    /\ InitInterpreter
    /\ IdleMain
    /\ source \in ParseSources
    /\ start = 0
    /\ current = 0
    /\ line = 1
    /\ tokens = <<>>
    /\ scanned = [at |-> "loop"]

(* Parser::new(tokens).parse() on the tokens the scanner returned. *)
ParseTokens ==
    /\ scanned.at = "done"
    /\ scanned.r.ok
    /\ parsed = None
    /\ parsed' = Some(parse(scanned.r.val).r)
    /\ UNCHANGED <<interpVars, scanVars, pc, argv, exit_code, stdout, stderr, parserVars>>

NextParse == ScanStep \/ ScanEof \/ ParseTokens

SpecParse == InitParse /\ [][NextParse]_vars

----------------------------------------------------------------------------
(* Parser::parse run one iteration of its loop at a time, on token vectors *)
(* that end with Eof: every short vector over an alphabet of tokens, every *)
(* truncation of the tokens of three programs, and vectors written out by  *)
(* hand.                                                                   *)

MaxTokens == 3

Tok(tty) == Token(tty, VNone, 1)
TokNumber == Token("Number", VNumber(1), 1)
TokIdentifier == Token("Identifier", VString("a"), 1)

TokenAlphabet ==
    {Tok("Eof"), Tok("Semicolon"), Tok("LeftBrace"), Tok("RightBrace"), Tok("RightParen"),
     Tok("Let"), Tok("Fun"), Tok("Equal"), Tok("Minus"), TokNumber, TokIdentifier}

ShortTokens ==
    UNION {{toks \o <<Tok("Eof")>> : toks \in [1..n -> TokenAlphabet]} : n \in 0..MaxTokens}

(* class A { fun init(a) { this.a = a; } fun get() { return this.a; } } A(1).get(); *)
TokensCounter ==
    <<Tok("Class"), Token("Identifier", VString("A"), 1), Tok("LeftBrace"),
      Tok("Fun"), Token("Identifier", VString("init"), 1), Tok("LeftParen"),
      Token("Identifier", VString("a"), 1), Tok("RightParen"),
      Tok("LeftBrace"), Tok("This"), Tok("Dot"),
      Token("Identifier", VString("a"), 1), Tok("Equal"),
      Token("Identifier", VString("a"), 1), Tok("Semicolon"),
      Tok("RightBrace"), Tok("Fun"), Token("Identifier", VString("get"), 1),
      Tok("LeftParen"), Tok("RightParen"), Tok("LeftBrace"), Tok("Return"),
      Tok("This"), Tok("Dot"), Token("Identifier", VString("a"), 1),
      Tok("Semicolon"), Tok("RightBrace"), Tok("RightBrace"),
      Token("Identifier", VString("A"), 1), Tok("LeftParen"),
      Token("Number", VNumber(1), 1), Tok("RightParen"), Tok("Dot"),
      Token("Identifier", VString("get"), 1), Tok("LeftParen"),
      Tok("RightParen"), Tok("Semicolon"), Tok("Eof")>>

(* fun f(a, b) { return a - b; } if (a < b) { return a; } else while (!a) a = a - 1; [a, b][0]; (a - 1) * f(1, 2); *)
TokensBranches ==
    <<Tok("Fun"), Token("Identifier", VString("f"), 1), Tok("LeftParen"),
      Token("Identifier", VString("a"), 1), Tok("Comma"),
      Token("Identifier", VString("b"), 1), Tok("RightParen"),
      Tok("LeftBrace"), Tok("Return"), Token("Identifier", VString("a"), 1),
      Tok("Minus"), Token("Identifier", VString("b"), 1), Tok("Semicolon"),
      Tok("RightBrace"), Tok("If"), Tok("LeftParen"),
      Token("Identifier", VString("a"), 1), Tok("Less"),
      Token("Identifier", VString("b"), 1), Tok("RightParen"),
      Tok("LeftBrace"), Tok("Return"), Token("Identifier", VString("a"), 1),
      Tok("Semicolon"), Tok("RightBrace"), Tok("Else"), Tok("While"),
      Tok("LeftParen"), Tok("Not"), Token("Identifier", VString("a"), 1),
      Tok("RightParen"), Token("Identifier", VString("a"), 1), Tok("Equal"),
      Token("Identifier", VString("a"), 1), Tok("Minus"),
      Token("Number", VNumber(1), 1), Tok("Semicolon"), Tok("LeftBracket"),
      Token("Identifier", VString("a"), 1), Tok("Comma"),
      Token("Identifier", VString("b"), 1), Tok("RightBracket"),
      Tok("LeftBracket"), Token("Number", VNumber(0), 1), Tok("RightBracket"),
      Tok("Semicolon"), Tok("LeftParen"), Token("Identifier", VString("a"), 1),
      Tok("Minus"), Token("Number", VNumber(1), 1), Tok("RightParen"),
      Tok("Star"), Token("Identifier", VString("f"), 1), Tok("LeftParen"),
      Token("Number", VNumber(1), 1), Tok("Comma"),
      Token("Number", VNumber(2), 1), Tok("RightParen"), Tok("Semicolon"),
      Tok("Eof")>>

(* let t = 0; for (let i = 0; i < 3; i = i + 1) { t = t * 10 + i; } t; *)
TokensLoop ==
    <<Tok("Let"), Token("Identifier", VString("t"), 1), Tok("Equal"),
      Token("Number", VNumber(0), 1), Tok("Semicolon"), Tok("For"),
      Tok("LeftParen"), Tok("Let"), Token("Identifier", VString("i"), 1),
      Tok("Equal"), Token("Number", VNumber(0), 1), Tok("Semicolon"),
      Token("Identifier", VString("i"), 1), Tok("Less"),
      Token("Number", VNumber(3), 1), Tok("Semicolon"),
      Token("Identifier", VString("i"), 1), Tok("Equal"),
      Token("Identifier", VString("i"), 1), Tok("Plus"),
      Token("Number", VNumber(1), 1), Tok("RightParen"), Tok("LeftBrace"),
      Token("Identifier", VString("t"), 1), Tok("Equal"),
      Token("Identifier", VString("t"), 1), Tok("Star"),
      Token("Number", VNumber(10), 1), Tok("Plus"),
      Token("Identifier", VString("i"), 1), Tok("Semicolon"),
      Tok("RightBrace"), Token("Identifier", VString("t"), 1),
      Tok("Semicolon"), Tok("Eof")>>

TokenPrograms == {TokensCounter, TokensBranches, TokensLoop}

(* The first n tokens of a program, then Eof. *)
Truncated(toks, n) == SubSeq(toks, 1, n) \o <<Tok("Eof")>>

TruncatedTokens == UNION {{Truncated(toks, n) : n \in 0..(Len(toks) - 1)} : toks \in TokenPrograms}

(* Token vectors with the error parse returns for them.  In the last two   *)
(* the value of a token is not of the variant its type promises.           *)
RecoveryCases ==
    {(* 1; ) 1; *)
     [tokens |-> <<TokNumber, Tok("Semicolon"), Tok("RightParen"), TokNumber, Tok("Semicolon"),
                   Tok("Eof")>>,
      msg |-> "Expected expression", at |-> 2],
     (* let a = 1 let a; *)
     [tokens |-> <<Tok("Let"), TokIdentifier, Tok("Equal"), TokNumber, Tok("Let"),
                   TokIdentifier, Tok("Semicolon"), Tok("Eof")>>,
      msg |-> "Expect ';' after variable declaration", at |-> 4],
     (* { 1; *)
     [tokens |-> <<Tok("LeftBrace"), TokNumber, Tok("Semicolon"), Tok("Eof")>>,
      msg |-> "Expect '}' after block", at |-> 3],
     (* 1; 1 *)
     [tokens |-> <<TokNumber, Tok("Semicolon"), TokNumber, Tok("Eof")>>,
      msg |-> "Expect ';' after expression", at |-> 3],
     (* ) ; let ; *)
     [tokens |-> <<Tok("RightParen"), Tok("Semicolon"), Tok("Let"), Tok("Semicolon"),
                   Tok("Eof")>>,
      msg |-> "Expected expression", at |-> 0],
     (* 1; fun a() 1; *)
     [tokens |-> <<TokNumber, Tok("Semicolon"), Tok("Fun"), TokIdentifier, Tok("LeftParen"),
                   Tok("RightParen"), TokNumber, Tok("Semicolon"), Tok("Eof")>>,
      msg |-> "Expect '{' before function body", at |-> 6],
     (* let <identifier without a name>; 1; *)
     [tokens |-> <<Tok("Let"), Tok("Identifier"), Tok("Semicolon"), TokNumber,
                   Tok("Semicolon"), Tok("Eof")>>,
      msg |-> "Expected identifier", at |-> 2],
     (* <number without a value> 1; 1; *)
     [tokens |-> <<Tok("Number"), TokNumber, Tok("Semicolon"), TokNumber, Tok("Semicolon"),
                   Tok("Eof")>>,
      msg |-> "Expected expression", at |-> 1]}

TokenVectors == ShortTokens \cup TruncatedTokens \cup {c.tokens : c \in RecoveryCases}

(* A plausible slip in parse: an error is dropped, the parser skips the    *)
(* token it stopped at and goes on with the next declaration.              *)
parse_step_recovers(ps, stmts) ==
    IF ~Parser_is_at_end(ps)
    THEN LET d == declaration(ps)
         IN IF ~d.r.ok
            THEN [ps |-> Parser_advance(d.ps), statements |-> stmts, returned |-> None]
            ELSE [ps |-> d.ps, statements |-> Append(stmts, d.r.val), returned |-> None]
    ELSE [ps |-> ps, statements |-> <<>>, returned |-> Some(Ok(stmts))]

(* One iteration of the loop of Parser::parse: the parser and the vector   *)
(* after it, and what parse returns if it returns here (`?` drops the      *)
(* vector, Ok moves it out).                                               *)
parse_step(ps, stmts) ==
    IF ~Parser_is_at_end(ps)
    THEN LET d == declaration(ps)
         IN IF ~d.r.ok
            THEN [ps |-> d.ps, statements |-> <<>>, returned |-> Some(d.r)]
            ELSE [ps |-> d.ps, statements |-> Append(stmts, d.r.val), returned |-> None]
    ELSE [ps |-> ps, statements |-> <<>>, returned |-> Some(Ok(stmts))]

(* Parser::new(tokens) on one of the token vectors. *)
InitTokens ==
    /\ InitInterpreter
    /\ IdleScanner
    /\ pc = "idle"
    /\ argv = 0
    /\ parsed = None
    /\ exit_code = None
    /\ stdout = <<>>
    /\ stderr = <<>>
    /\ parser \in {Some(Parser(toks, 0)) : toks \in TokenVectors}
    /\ parse_statements = <<>>

ParseStep ==
    /\ parser # None
    /\ parsed = None
    /\ \E x \in {parse_step(Unwrap(parser), parse_statements)} :
          /\ parser' = Some(x.ps)
          /\ parse_statements' = x.statements
          /\ parsed' = x.returned
    /\ UNCHANGED <<interpVars, scanVars, pc, argv, exit_code, stdout, stderr>>

NextTokens == ParseStep

SpecTokens == InitTokens /\ [][NextTokens]_vars

----------------------------------------------------------------------------
(* Properties. *)

EndsInBlock(statements) ==
    Len(statements) > 0 /\ statements[Len(statements)].s = "Block"

(* C1: when an interpret call whose last statement is a Block fails with   *)
(* an evaluation error raised inside that block, the current-environment   *)
(* pointer after the call is the one that was current before it.           *)
C1_BlockRestoresEnvironmentOnError ==
    [][(calls' = calls + 1 /\ EndsInBlock(program') /\ ~outcome'.ok)
          => environment' = environment]_vars

(* The methods of instance i that no field of i shadows. *)
MethodsOf(i) ==
    DOMAIN classes[instances[i].class].methods \ DOMAIN instances[i].fields

CounterTwice ==
    <<CounterClass, Let("c", ExprCall(Ref("Counter"), <<Num(1)>>)), Inc("c"), Inc("c")>>

(* C2: a method read off instance i has `this` bound to i itself; calling  *)
(* the incrementing method twice on a Counter(1) yields 2 and then 3.      *)
C2_ThisIsTheInstance ==
    /\ \A i \in 1..Len(instances) : \A m \in MethodsOf(i) :
          LET g == instance_get(Current, i, m)
          IN get(g.st.envs, g.st.functions[g.r.val.f].closure, "this") = Ok(VInstance(i))
    /\ (calls > 0 /\ program = CounterTwice) => outcome = Ok(Some(VNumber(3)))

(* Statement lists of literal expression statements and statements that    *)
(* produce no value. *)
IsFlat(statements) ==
    \A i \in 1..Len(statements) :
        \/ statements[i].s = "Expression" /\ statements[i].expr.e = "Literal"
        \/ statements[i] \in SilentStmts
LastExpression(statements) ==
    LET at == {i \in 1..Len(statements) : statements[i].s = "Expression"}
    IN IF at = {} THEN 0 ELSE CHOOSE i \in at : \A j \in at : j <= i

(* C3: interpret of a list that completes without Return yields the value  *)
(* of the last expression statement evaluated, and none only if there was  *)
(* no expression statement; later statements without a value change nothing. *)
C3_LastExpressionValue ==
    (calls > 0 /\ IsFlat(program)) =>
        outcome = Ok(IF LastExpression(program) = 0 THEN None
                     ELSE Some(program[LastExpression(program)].expr.value))

(* The environments from rc outward along the enclosing links. *)
RECURSIVE ChainOf(_, _)
ChainOf(es, rc) == IF rc = 0 THEN {} ELSE {rc} \cup ChainOf(es, es[rc].enclosing)

ArgLists == {<<>>, <<VNumber(3)>>, <<VNumber(1), VNumber(2)>>}

(* The field an init body `this.<field> = <first parameter>; ...` writes. *)
InitWrites(init) ==
    /\ Len(init.params) = 1
    /\ Len(init.body) > 0
    /\ init.body[1].s = "Expression"
    /\ init.body[1].expr.e = "Set"
    /\ init.body[1].expr.object = ExprThis
    /\ init.body[1].expr.value = Ref(init.params[1])
Fails(body) == \E j \in 1..Len(body) : body[j] = Stmt(DivZero)

PointReturning ==
    <<PointClass(<<StmtReturn(Some(Num(7)))>>),
      Stmt(ExprGet(ExprCall(Ref("P"), <<Num(3)>>), "f"))>>

(* C4: calling a class yields a new instance of that class; an init method *)
(* runs with the call's arguments and `this` bound to that instance, so    *)
(* the field it writes is on the instance returned, whatever init returns; *)
(* an arity mismatch or an error inside init is the call's error.          *)
C4_ClassCallYieldsInstance ==
    \A c \in 1..Len(classes) : \A args \in ArgLists :
        LET x == call_value(Current, VClass(c), args)
            new == Len(instances) + 1
            methods == classes[c].methods
            init == functions[methods["init"]]
        IN IF "init" \notin DOMAIN methods
           THEN /\ x.r = Ok(VInstance(new))
                /\ x.st.instances[new] = [class |-> c, fields |-> EmptyMap]
           ELSE IF Len(args) # Len(init.params)
           THEN x.r = Err("InvalidOperation",
                          "Expected " \o ToString(Len(init.params))
                             \o " arguments but got " \o ToString(Len(args)))
           ELSE IF Fails(init.body)
           THEN x.r = Err("DivideByZero", "Divide by zero")
           ELSE /\ x.r = Ok(VInstance(new))
                /\ x.st.instances[new].class = c
                /\ InitWrites(init) =>
                      x.st.instances[new].fields
                          = Insert(EmptyMap, init.body[1].expr.name, args[1])

(* A class whose init returns a value was called and the field init wrote  *)
(* was read off the result.                                                *)
C4_Witness ==
    calls > 0 /\ program = PointReturning /\ outcome = Ok(Some(VNumber(3)))

IsTick(f) ==
    /\ functions[f].body = TickBody
    /\ get(envs, functions[f].closure, "n").ok

ThreeTicks ==
    <<MakeFunction, Let("t", ExprCall(Ref("make"), <<>>)), Tick("t"), Tick("t"), Tick("t")>>
TwoCounters ==
    <<MakeFunction, Let("t", ExprCall(Ref("make"), <<>>)), Let("u", ExprCall(Ref("make"), <<>>)),
      Tick("t"), Tick("t"), Tick("u")>>

(* C5: a counter closure, whose defining scope S has completed, still      *)
(* reads and updates n in S: successive calls return successive values,    *)
(* the update lands in S, and counters closed over other scopes keep       *)
(* their own n.                                                            *)
C5_ClosureCapture ==
    /\ \A f \in 1..Len(functions) : IsTick(f) =>
          LET S == functions[f].closure
              k == get(envs, S, "n").val.n
              x == call_function(Current, f, <<>>)
              y == call_function(x.st, f, <<>>)
          IN /\ x.r = Ok(VNumber(k + 1))
             /\ y.r = Ok(VNumber(k + 2))
             /\ get(y.st.envs, S, "n") = Ok(VNumber(k + 2))
             /\ y.st.environment = environment
             /\ \A g \in 1..Len(functions) :
                   (IsTick(g) /\ S \notin ChainOf(envs, functions[g].closure)) =>
                       get(y.st.envs, functions[g].closure, "n")
                           = get(envs, functions[g].closure, "n")
    /\ (calls > 0 /\ program = ThreeTicks) => outcome = Ok(Some(VNumber(3)))
    /\ (calls > 0 /\ program = TwoCounters) => outcome = Ok(Some(VNumber(1)))

(* Two counters made by separate calls of make() were ticked: the second   *)
(* started from its own n.                                                 *)
C5_Witness ==
    /\ calls > 0 /\ program = TwoCounters /\ outcome = Ok(Some(VNumber(1)))
    /\ \E f, g \in 1..Len(functions) :
          /\ IsTick(f) /\ IsTick(g)
          /\ get(envs, functions[f].closure, "n") = Ok(VNumber(2))
          /\ get(envs, functions[g].closure, "n") = Ok(VNumber(1))

Names == {"a", "b", "x"}

(* Block bodies that define the name n with let, fun or class. *)
DefiningBodies(n) ==
    {<<Let(n, Num(42))>>, <<StmtVar(n, None)>>, <<StmtFunction(n, <<>>, <<>>)>>,
     <<StmtClass(n, <<>>)>>}

Shadowing ==
    <<Let("a", Num(1)), StmtBlock(<<Let("a", Num(2)), Let("b", Num(3))>>), Stmt(Ref("a"))>>

(* C6: whatever the current environment, a Block that defines a name and   *)
(* completes normally or by Return leaves the pointer and every existing   *)
(* environment as they were, so the name resolves after the block exactly  *)
(* as it did before it; inside the block an outer name reads as outside    *)
(* and a name the block defines reads as defined there.                    *)
C6_ScopeIsolation ==
    \A rc \in 1..Len(envs) : \A n \in Names :
        LET st == [Current EXCEPT !.environment = rc]
            read == execute(st, StmtBlock(<<Stmt(Ref(n))>>))
            shadow == execute(st, StmtBlock(<<Let(n, Num(42)), Stmt(Ref(n))>>))
            return == execute(st, StmtBlock(<<Let(n, Num(42)), StmtReturn(Some(Ref(n)))>>))
        IN /\ \A body \in DefiningBodies(n) :
                 LET x == execute(st, StmtBlock(body))
                 IN /\ x.r = Ok(ControlValue(None))
                    /\ x.st.environment = rc
                    /\ SubSeq(x.st.envs, 1, Len(envs)) = envs
                    /\ get(x.st.envs, x.st.environment, n) = get(envs, rc, n)
           /\ IF get(envs, rc, n).ok
              THEN read.r = Ok(ControlValue(Some(get(envs, rc, n).val)))
              ELSE read.r = get(envs, rc, n)
           /\ shadow.r = Ok(ControlValue(Some(VNumber(42))))
           /\ return.r = Ok(ControlReturn(VNumber(42)))
           /\ return.st.environment = rc
           /\ get(return.st.envs, rc, n) = get(envs, rc, n)

(* A block shadowed a and defined b; after it a has its outer value and b  *)
(* is bound nowhere in the chain.                                          *)
C6_Witness ==
    /\ calls > 0 /\ program = Shadowing /\ outcome = Ok(Some(VNumber(1)))
    /\ ~get(envs, environment, "b").ok

(* The environments of the chain from rc that bind name. *)
Binders(rc, name) == {i \in ChainOf(envs, rc) : name \in DOMAIN envs[i].values}
(* The binder from which every other binder is further out. *)
Nearest(rc, name) ==
    CHOOSE i \in Binders(rc, name) : Binders(rc, name) \subseteq ChainOf(envs, i)

AssignInBlock ==
    <<Let("a", Num(1)), StmtBlock(<<Stmt(ExprAssign("a", Num(2)))>>), Stmt(Ref("a"))>>

(* C7: whatever the current environment, `name = 42` leaves the names      *)
(* bound in every environment as they were; it sets the value in the       *)
(* nearest environment of the chain that binds the name and nothing else,  *)
(* and fails with "Undefined variable" when no environment binds it.       *)
C7_AssignNeverCreates ==
    \A rc \in 1..Len(envs) : \A n \in Names \cup {"z"} :
        LET st == [Current EXCEPT !.environment = rc]
            x == evaluate(st, ExprAssign(n, Num(42)))
        IN /\ Len(x.st.envs) = Len(envs)
           /\ \A i \in 1..Len(envs) :
                 DOMAIN x.st.envs[i].values = DOMAIN envs[i].values
           /\ IF Binders(rc, n) = {}
              THEN /\ x.r = Err("InvalidOperation", "Undefined variable '" \o n \o "'")
                   /\ x.st = st
              ELSE /\ x.r = Ok(VNumber(42))
                   /\ x.st = [st EXCEPT !.envs[Nearest(rc, n)].values[n] = VNumber(42)]

(* An assignment inside a block updated the binding of the enclosing       *)
(* scope, and the block's own environment bound nothing.                   *)
C7_Witness ==
    /\ calls > 0 /\ program = AssignInBlock /\ outcome = Ok(Some(VNumber(2)))
    /\ \E i \in 1..Len(envs) : envs[i].enclosing # 0 /\ DOMAIN envs[i].values = {}

Falsy == {VBoolean(FALSE), VNull, VNone, VNumber(0), VString(""), VArray(<<>>)}
LeftOperands == LeftValues \cup {VNumber(2), VString(""), VArray(<<>>), VArray(<<VNumber(0)>>)}
RightOperands == {ExprAssign("x", Num(1)), DivZero, Num(5), Ref("a")}

SkippedAssignment ==
    <<Let("x", Num(0)),
      Stmt(ExprLogical(Bool(FALSE), "And", ExprAssign("x", Num(1)))),
      Stmt(Ref("x"))>>

(* C8: `a and b` is the value of a when a is falsy and `a or b` the value  *)
(* of a when a is truthy, and then b is not evaluated: the state is        *)
(* untouched and no error of b arises; otherwise the result, the state and *)
(* the error are those of evaluating b.                                    *)
C8_ShortCircuit ==
    /\ \A a \in LeftOperands : \A op \in {"And", "Or"} : \A b \in RightOperands :
          LET x == evaluate(Current, ExprLogical(ExprLiteral(a), op, b))
              decided == IF op = "And" THEN a \in Falsy ELSE a \notin Falsy
          IN IF decided THEN x.r = Ok(a) /\ x.st = Current
             ELSE x = evaluate(Current, b)
    /\ (calls > 0 /\ program = SkippedAssignment) => outcome = Ok(Some(VNumber(0)))

(* `false and (x = 1)` ran and x kept the value it had. *)
C8_Witness ==
    /\ calls > 0 /\ program = SkippedAssignment /\ outcome = Ok(Some(VNumber(0)))
    /\ get(envs, environment, "x") = Ok(VNumber(0))

IsArithmetic(statements) ==
    /\ Len(statements) = 1
    /\ statements[1].s = "Expression"
    /\ statements[1].expr.e = "Binary"
    /\ statements[1].expr.operator \in ArithmeticOps
    /\ statements[1].expr.left.e = "Literal"
    /\ statements[1].expr.right.e = "Literal"

(* The integer quotient (truncated) and remainder of a by b # 0: the pair  *)
(* q, r with a = q * b + r, |r| < |b| and r of the sign of a.              *)
QuotRem(a, b) ==
    CHOOSE qr \in (-Abs(a)..Abs(a)) \X (-Abs(a)..Abs(a)) :
        /\ a = qr[1] * b + qr[2]
        /\ Abs(qr[2]) < Abs(b)
        /\ (a >= 0 => qr[2] >= 0) /\ (a <= 0 => qr[2] <= 0)

(* C10: binary - * / % give InvalidTypeOperation when an operand is not an *)
(* integer, DivideByZero for / or % of integers with right operand 0, and  *)
(* otherwise the integer difference, product, quotient or remainder.       *)
C10_ArithmeticErrors ==
    (calls > 0 /\ IsArithmetic(program)) =>
        LET a == program[1].expr.left.value
            b == program[1].expr.right.value
            op == program[1].expr.operator
        IN IF a.k # "Number" \/ b.k # "Number"
           THEN ~outcome.ok /\ outcome.tty = "InvalidTypeOperation"
           ELSE IF op \in {"Slash", "Modulo"} /\ b.n = 0
           THEN ~outcome.ok /\ outcome.tty = "DivideByZero"
           ELSE outcome = Ok(Some(VNumber(
                    CASE op = "Minus" -> a.n - b.n
                      [] op = "Star" -> a.n * b.n
                      [] op = "Slash" -> QuotRem(a.n, b.n)[1]
                      [] op = "Modulo" -> QuotRem(a.n, b.n)[2])))

(* The characters tokenize's match has an arm for. *)
Recognised ==
    {"(", ")", "{", "}", "[", "]", ",", ";", ".", "+", "-", "*", "%", "?", "/", ">", "<",
     "=", "!", "\"", "\n", " ", "\r", "\t", "_"} \cup Digits \cup Letters

(* The string opened at offset at is never closed. *)
Unterminated(at) ==
    /\ source[at + 1] = "\""
    /\ \A j \in (at + 2)..Len(source) : source[j] # "\""

(* The digits of the integer literal that begins at offset at. *)
LiteralAt(at) ==
    LET end == CHOOSE e \in at..Len(source) :
                   /\ \A j \in (at + 1)..e : source[j] \in Digits
                   /\ e = Len(source) \/ source[e + 1] \notin Digits
        first == CHOOSE f \in at..end :
                   /\ \A j \in (at + 1)..f : source[j] = "0"
                   /\ f = end \/ source[f + 1] # "0"
    IN [j \in 1..(end - first) |-> DigitValue(source[first + j])]

(* The literal that begins at offset at is larger than isize::MAX. *)
DoesNotFit(at) ==
    /\ source[at + 1] \in Digits
    /\ LET d == LiteralAt(at)
       IN \/ Len(d) > Len(IsizeMaxDigits)
          \/ /\ Len(d) = Len(IsizeMaxDigits)
             /\ \E k \in 1..Len(d) :
                   d[k] > IsizeMaxDigits[k] /\ \A j \in 1..(k - 1) : d[j] = IsizeMaxDigits[j]

NoEof(ts) == \A j \in 1..Len(ts) : ts[j].tty # "Eof"

C9_Shape ==
    /\ 0 <= start /\ start <= current /\ current <= Len(source)
    /\ scanned.at = "loop" => NoEof(tokens) /\ ENABLED NextScan
    /\ scanned.at = "done" =>
          IF scanned.r.ok
          THEN /\ scanned.r.val = tokens
               /\ Len(tokens) >= 1
               /\ tokens[Len(tokens)].tty = "Eof"
               /\ NoEof(SubSeq(tokens, 1, Len(tokens) - 1))
               /\ current = Len(source)
          ELSE /\ scanned.r.tty = "InvalidToken"
               /\ DOMAIN scanned.r = {"ok", "tty", "msg"}
               /\ tokens = <<>>

C9_Iteration ==
    /\ scanned.at # "done"
    /\ (scanned.at = "loop" /\ is_at_end(ScannerNow)) => scanned'.at = "done" /\ scanned'.r.ok
    /\ (scanned.at = "loop" /\ ~is_at_end(ScannerNow)) =>
          /\ start' = current
          /\ current' > current
          /\ current' <= Len(source)
          /\ (scanned'.at = "done") =
                (\/ source[current + 1] \notin Recognised
                 \/ Unterminated(current)
                 \/ DoesNotFit(current))
          /\ scanned'.at = "done" => ~scanned'.r.ok

(* C9: tokenization is total and terminates on every finite source: while *)
(* the loop runs a step is always possible, every iteration sets start to  *)
(* the cursor and moves the cursor forward by at least one character with  *)
(* start <= current <= length, and the scan ends, either with the token    *)
(* list, whose last element is Eof and which holds no other Eof, or with   *)
(* one InvalidToken error and no token list; the error arises exactly when *)
(* the iteration meets a character with no arm, a string that is never     *)
(* closed, or an integer literal larger than isize::MAX.                   *)
C9_TokenizationTotal ==
    /\ []C9_Shape
    /\ [][C9_Iteration]_vars
    /\ <>(scanned.at = "done")

(* A scan that pushed tokens and then failed on a literal that does not    *)
(* fit: the tokens are dropped.                                            *)
C9_Witness ==
    /\ scanned.at = "done"
    /\ ~scanned.r.ok
    /\ start > 0
    /\ DoesNotFit(start)
    /\ tokens = <<>>

----------------------------------------------------------------------------
(* The environments created for a call of a function closed over the       *)
(* global environment.                                                     *)
CallEnvironments == {rc \in 2..Len(envs) : envs[rc].enclosing = 1}

(* C11: a call with M arguments of a function declaring N parameters: if   *)
(* N # M the result is InvalidOperation("Expected N arguments but got M"), *)
(* no statement of the body has run (x is still 0, no environment was      *)
(* made) and the current-environment pointer is unchanged; if N = M the    *)
(* body has run (x is 1) in a fresh environment enclosed by the closure    *)
(* in which the i-th parameter is bound to the i-th argument value.        *)
C11_ArityAndBinding ==
    \A params \in ParamLists, args \in CallArgLists :
        (calls > 0 /\ program = CallProgram(params, args)) =>
            IF Len(params) # Len(args)
            THEN /\ outcome = Err("InvalidOperation",
                                  "Expected " \o ToString(Len(params))
                                      \o " arguments but got " \o ToString(Len(args)))
                 /\ get(envs, 1, "x") = Ok(VNumber(0))
                 /\ environment = 1
                 /\ Len(envs) = 1
            ELSE /\ outcome.ok
                 /\ get(envs, 1, "x") = Ok(VNumber(1))
                 /\ environment = 1
                 /\ \E rc \in CallEnvironments :
                       /\ DOMAIN envs[rc].values = {params[j] : j \in 1..Len(params)}
                       /\ \A j \in 1..Len(params) : envs[rc].values[params[j]] = args[j]

----------------------------------------------------------------------------
IsIndex(i) == i.k = "Number" /\ i.n >= 0

(* C12: a[i] evaluates a, then i, and only then checks: an i that is not a *)
(* non-negative integer, or an a that is not an array, gives               *)
(* InvalidTypeOperation; an array of length n with i >= n gives            *)
(* InvalidOperation("Index i out of bounds"); otherwise the result is the  *)
(* element at 0-based position i.                                          *)
C12_Indexing ==
    \A a \in IndexedValues, i \in IndexValues :
        (calls > 0 /\ program = IndexProgram(a, i)) =>
            /\ get(envs, 1, "t") = Ok(VNumber(12))
            /\ IF ~IsIndex(i) \/ a.k # "Array"
               THEN ~outcome.ok /\ outcome.tty = "InvalidTypeOperation"
               ELSE IF i.n >= Len(a.items)
               THEN outcome = Err("InvalidOperation",
                                  "Index " \o ToString(i.n) \o " out of bounds")
               ELSE outcome = Ok(Some(a.items[i.n + 1]))

(* The second element of a two-element array was read. *)
C12_Witness ==
    /\ program = IndexProgram(VArray(<<VNumber(5), VString("s")>>), VNumber(1))
    /\ outcome = Ok(Some(VString("s")))

----------------------------------------------------------------------------
(* C13: if, while, !, and, or treat exactly false, null, the none          *)
(* sentinel, 0, "" and [] as false and every other value, functions,       *)
(* classes and instances included, as true; !v is the boolean negation of  *)
(* that.                                                                   *)
C13_Truthiness ==
    \A c \in TruthCases, context \in TruthContexts :
        (calls > 0 /\ program = TruthProgram(c.x, context)) =>
            /\ outcome.ok
            /\ CASE context = "if" ->
                      outcome.val = Some(VString(IF c.truthy THEN "then" ELSE "else"))
                 [] context = "while" ->
                      outcome.val = Some(VString(IF c.truthy THEN "ran" ELSE "skipped"))
                 [] context = "not" -> outcome.val = Some(VBoolean(~c.truthy))
                 [] context = "and" -> (outcome.val = Some(VString("right"))) = c.truthy
                 [] context = "or" -> (outcome.val = Some(VString("right"))) = ~c.truthy

(* An instance used as the condition of an if took the then branch. *)
C13_Witness ==
    /\ program = TruthProgram(ExprCall(Ref("K"), <<>>), "if")
    /\ outcome = Ok(Some(VString("then")))

----------------------------------------------------------------------------
(* C15: a return executed outside any function, at top level or nested in  *)
(* blocks, if or while, ends the program: interpret yields the value of    *)
(* the returned expression, null for a bare return, and no statement after *)
(* the return has run (x keeps its first value).                           *)
C15_TopLevelReturn ==
    \A c \in ReturnCases, nesting \in ReturnNestings :
        (calls > 0 /\ program = ReturnProgram(c.x, nesting)) =>
            /\ outcome = Ok(Some(c.v))
            /\ get(envs, 1, "x") = Ok(VNumber(1))

(* A return inside an if inside a while ended the program with its value. *)
C15_Witness ==
    /\ program = ReturnProgram(Some(Num(7)), "if in while")
    /\ outcome = Ok(Some(VNumber(7)))

----------------------------------------------------------------------------
(* C16: == never errors and is true exactly when both sides denote the     *)
(* same integer, string, boolean, null or, element by element, array, or   *)
(* the same function, class or instance object: values of different        *)
(* variants are unequal, an object read twice through one variable or an   *)
(* alias is equal to itself, and two instances constructed separately from *)
(* one class are unequal although their fields agree; != is the negation.  *)
C16_Equality ==
    \A a \in EqualityCases, b \in EqualityCases :
        /\ (calls > 0 /\ program = EqualityProgram(a.x, "EqualEqual", b.x)) =>
              outcome = Ok(Some(VBoolean(a.id = b.id)))
        /\ (calls > 0 /\ program = EqualityProgram(a.x, "NotEqual", b.x)) =>
              outcome = Ok(Some(VBoolean(a.id # b.id)))

(* Two instances of K with the same field v = 1 compared unequal. *)
C16_Witness ==
    /\ program = EqualityProgram(Ref("o"), "EqualEqual", Ref("p"))
    /\ outcome = Ok(Some(VBoolean(FALSE)))
    /\ Len(instances) >= 2
    /\ instances[1] = instances[2]

----------------------------------------------------------------------------
(* The fields a list of writes leaves: the last value written per name. *)
FieldsAfter(writes) ==
    [name \in {writes[j].name : j \in 1..Len(writes)} |->
        writes[CHOOSE j \in 1..Len(writes) :
                  /\ writes[j].name = name
                  /\ \A l \in (j + 1)..Len(writes) : writes[l].name # name].v]

(* The class K and the instance o are as the prelude made them, but for    *)
(* o's fields.                                                             *)
ClassUntouched ==
    /\ Len(classes) = 1
    /\ classes[1].name = "K"
    /\ DOMAIN classes[1].methods = {"m", "n"}
    /\ functions[classes[1].methods["m"]].body = MethodM.body
    /\ functions[classes[1].methods["n"]].body = MethodN.body
    /\ get(envs, 1, "o") = Ok(VInstance(1))
    /\ instances[1].class = 1

(* A bound method: the class's function with a closure that is a new       *)
(* environment over the method's closure and defines `this` as an instance *)
(* of the class.                                                           *)
IsBoundMethod(value, name) ==
    /\ value.k = "Function"
    /\ LET method == functions[classes[1].methods[name]]
           bound == functions[value.f]
       IN /\ [bound EXCEPT !.closure = 0] = [method EXCEPT !.closure = 0]
          /\ bound.closure # method.closure
          /\ envs[bound.closure].enclosing = method.closure
          /\ DOMAIN envs[bound.closure].values = {"this"}
          /\ envs[bound.closure].values["this"].k = "Instance"
          /\ instances[envs[bound.closure].values["this"].i].class = 1

(* C18: o.name on an instance yields the field name if there is one, also  *)
(* when the class has a method of that name, else the class's method       *)
(* bound, else InvalidOperation("Undefined property 'name'"); o.name = v   *)
(* writes the field, evaluates to v and leaves the instance's class and    *)
(* the class's methods alone; a read or a write on a value that is no      *)
(* instance is InvalidTypeOperation.                                       *)
C18_PropertyAccess ==
    /\ \A writes \in WriteLists :
          /\ \A name \in PropertyNames :
                (calls > 0 /\ program = ReadProgram(writes, name)) =>
                   /\ ClassUntouched
                   /\ instances[1].fields = FieldsAfter(writes)
                   /\ IF name \in DOMAIN FieldsAfter(writes)
                      THEN outcome = Ok(Some(FieldsAfter(writes)[name]))
                      ELSE IF name \in {"m", "n"}
                      THEN outcome.ok /\ IsBoundMethod(Unwrap(outcome.val), name)
                      ELSE outcome = Err("InvalidOperation",
                                         "Undefined property '" \o name \o "'")
          /\ (calls > 0 /\ writes # <<>> /\ program = WriteProgram(writes)) =>
                /\ ClassUntouched
                /\ instances[1].fields = FieldsAfter(writes)
                /\ outcome = Ok(Some(writes[Len(writes)].v))
    /\ \A x \in NonInstances :
          (calls > 0 /\ program \in {BadReadProgram(x), BadWriteProgram(x)}) =>
             /\ ~outcome.ok
             /\ outcome.tty = "InvalidTypeOperation"
             /\ ClassUntouched

(* A field m written on o is read back although K has a method m. *)
C18_Witness ==
    /\ program = ReadProgram(<<[name |-> "m", v |-> VNumber(5)]>>, "m")
    /\ outcome = Ok(Some(VNumber(5)))
    /\ "m" \in DOMAIN classes[1].methods

----------------------------------------------------------------------------
(* The first slot that fails, or one more than the number of slots. *)
FirstFailure(modes) ==
    CHOOSE j \in 1..(Len(modes) + 1) :
        /\ j = Len(modes) + 1 \/ modes[j] = "fail"
        /\ \A l \in 1..(j - 1) : modes[l] = "ok"

(* The trace of the slots 1..n run in order: 1, 12, 123. *)
RECURSIVE TraceOf(_)
TraceOf(n) == IF n = 0 THEN 0 ELSE 10 * TraceOf(n - 1) + n

(* C19: evaluation is left to right: a binary operator evaluates its left  *)
(* operand completely before its right, a call its callee and then its     *)
(* arguments in order (and only then runs the function), an array literal  *)
(* its elements in order, an assignment its right-hand side before the     *)
(* binding changes; an operand that fails stops the evaluation, so nothing *)
(* to its right is evaluated.                                              *)
C19_LeftToRight ==
    \A form \in OrderForms :
        \A modes \in SlotModes(form) :
            (calls > 0 /\ program = OrderProgram(form, modes)) =>
                LET failure == FirstFailure(modes)
                    failed == failure <= Len(modes)
                IN /\ outcome.ok = ~failed
                   /\ failed => outcome.tty = "DivideByZero"
                   /\ get(envs, 1, "t") =
                         Ok(VNumber(IF failed THEN TraceOf(failure)
                                    ELSE IF form = "call" THEN 10 * TraceOf(3) + 4
                                    ELSE TraceOf(Len(modes))))
                   /\ form = "assign" =>
                         /\ get(envs, 1, "x") = Ok(VNumber(IF failed THEN 1 ELSE 2))
                         /\ ~failed => get(envs, 1, "seen") = Ok(VNumber(1))

(* A call whose second argument failed: the callee and both arguments were *)
(* evaluated in order and the function did not run.                        *)
C19_Witness ==
    /\ program = OrderProgram("call", <<"ok", "ok", "fail">>)
    /\ get(envs, 1, "t") = Ok(VNumber(123))
    /\ ~outcome.ok

(* The parts of the for statements of ForSources, as trees. *)
ForInit(f) ==
    CASE f.init = "none" -> None
      [] f.init = "let" -> Some(Let("i", Num(1)))
      [] f.init = "expr" -> Some(Stmt(ExprAssign("i", Num(1))))
ForCond == ExprBinary(Ref("i"), "Less", Num(3))
ForInc == ExprAssign("i", ExprBinary(Ref("i"), "Plus", Num(1)))
ForCore == Stmt(ExprAssign("t", ExprBinary(ExprBinary(Ref("t"), "Star", Num(10)), "Plus", Ref("i"))))
ForGuard == StmtIf(ExprBinary(Ref("i"), "EqualEqual", Num(3)), StmtReturn(Some(Ref("t"))), None)
ForBody(f) ==
    IF f.cond /\ f.inc THEN ForCore
    ELSE StmtBlock((IF f.cond THEN <<>> ELSE <<ForGuard>>) \o <<ForCore>>
                        \o (IF f.inc THEN <<>> ELSE <<Stmt(ForInc)>>))

(* The tree the statement is to become: Block[init, While(cond,            *)
(* Block[body, ExprStmt(inc)])], less the parts that are missing.          *)
ForTree(f) ==
    LET stepped == IF f.inc THEN StmtBlock(<<ForBody(f), Stmt(ForInc)>>) ELSE ForBody(f)
        loop == StmtWhile(IF f.cond THEN ForCond ELSE ExprLiteral(VBoolean(TRUE)), stepped)
    IN IF f.init = "none" THEN loop ELSE StmtBlock(<<Unwrap(ForInit(f)), loop>>)

(* The whole program of ForSource(f). *)
ForProgram(f) ==
    <<Let("t", Num(0))>>
        \o (CASE f.init = "none" -> <<Let("i", Num(1))>>
              [] f.init = "expr" -> <<Let("i", Num(5))>>
              [] f.init = "let" -> <<>>)
        \o <<ForTree(f), Stmt(Ref(f.tail))>>

(* What the run is to give: the body sees i = 1 and i = 2 in turn and not  *)
(* 3, so t ends as 12; after the loop i is 3, or unknown when init         *)
(* declared it; without a condition the body returns t at i = 3.           *)
ForOutcome(f) ==
    IF ~f.cond \/ f.tail = "t" THEN Ok(Some(VNumber(12)))
    ELSE IF f.init = "let" THEN Err("InvalidOperation", "Undefined variable 'i'")
    ELSE Ok(Some(VNumber(3)))

(* C20: `for (init; cond; inc) body` parses to Block[init, While(cond,     *)
(* Block[body, ExprStmt(inc)])], a missing init giving the bare While, a   *)
(* missing cond Literal(true), a missing inc the body unwrapped; so inc    *)
(* runs after each iteration of body and before cond is evaluated again,   *)
(* and a variable declared by `let` in init is not visible after the loop. *)
C20_ForDesugaring ==
    \A f \in ForCases :
        source = ForSource(f) =>
            /\ IsSome(parsed) => Unwrap(parsed) = Ok(ForProgram(f))
            /\ calls > 0 => outcome = ForOutcome(f)

(* A for statement with all three parts and a `let` in init was parsed and *)
(* run, and i was read after the loop.                                     *)
C20_Witness ==
    /\ source = ForSource([init |-> "let", cond |-> TRUE, inc |-> TRUE, tail |-> "i"])
    /\ IsSome(parsed)
    /\ program = Unwrap(parsed).val
    /\ calls = 1
    /\ ~outcome.ok

(* main's positions in the order of the pipeline. *)
Stage(p) ==
    CASE p = "start" -> 0
      [] p = "read" -> 1
      [] p = "scan" -> 2
      [] p = "parse" -> 3
      [] p = "interpret" -> 4
      [] p = "exit" -> 5

(* Statement lists that run from top to bottom, every statement once. *)
IsStraight(statements) ==
    \A i \in 1..Len(statements) :
        statements[i].s \in {"Expression", "Var", "Function", "Class"}

(* A straight list produces a value when it has an expression statement.   *)
Produces(statements) ==
    \E i \in 1..Len(statements) : statements[i].s = "Expression"

(* The exit code and the output of a process that has ended, by the first  *)
(* stage that failed.                                                      *)
C14_Exit ==
    pc = "exit" =>
        IF argv # 2
            THEN exit_code = Some(64) /\ scanned.at = "idle" /\ parsed = None /\ calls = 0
        ELSE IF scanned.at = "idle"
            THEN exit_code = Some(65) /\ parsed = None /\ calls = 0
        ELSE IF ~scanned.r.ok
            THEN exit_code = Some(65) /\ parsed = None /\ calls = 0
        ELSE IF ~Unwrap(parsed).ok
            THEN exit_code = Some(65) /\ calls = 0
        ELSE IF ~outcome.ok
            THEN exit_code = Some(70) /\ calls = 1 /\ stdout = <<>>
        ELSE /\ exit_code = Some(0)
             /\ calls = 1
             /\ Len(stdout) <= 1
             /\ IsStraight(program) => (Len(stdout) = 1 <=> Produces(program))

(* C14: the pipeline runs strictly forward and the first failing stage     *)
(* ends it: a lexical error gives exit code 65 and neither the parser nor  *)
(* the interpreter runs; a parse error gives 65 and the interpreter does   *)
(* not run; an evaluation error gives 70; a wrong argument count gives 64; *)
(* otherwise the exit code is 0 and the final value is printed exactly     *)
(* when the program produced a value.                                      *)
C14_Pipeline ==
    /\ []C14_Exit
    /\ [][Stage(pc') >= Stage(pc) /\ (pc = "exit" => UNCHANGED vars)]_vars
    /\ [](pc # "exit" => exit_code = None /\ stdout = <<>> /\ stderr = <<>>)

(* What `<target> = <value>` is to parse to: Assign for a Variable, Set    *)
(* with the same object and name for a Get, else the error.                *)
AssignTree(target, value) ==
    IF value = None THEN error("Invalid assignment target")
    ELSE CASE target.e = "Variable" -> Ok(<<Stmt(ExprAssign(target.name, Unwrap(value)))>>)
           [] target.e = "Get" ->
                 Ok(<<Stmt(ExprSet(target.object, target.name, Unwrap(value)))>>)
           [] OTHER -> error("Invalid assignment target")

(* C21: a Variable to the left of `=` parses to Assign, a Get to Set with  *)
(* the same object and name, and any other left-hand expression fails with *)
(* InvalidExpression("Invalid assignment target"); assignment is           *)
(* right-associative: `a = b = c` is Assign(a, Assign(b, c)).              *)
C21_AssignmentTargets ==
    \A t \in AssignTargets, v \in AssignValues :
        (source = AssignSource(t, v) /\ IsSome(parsed)) =>
            Unwrap(parsed) = AssignTree(t.tree, v.tree)

(* `a[0] = b = c;` was parsed and refused, and so the chain `b = c` to its *)
(* right had been parsed first.                                            *)
C21_Witness ==
    /\ source = <<"a", "[", "0", "]", " ", "=", " ", "b", " ", "=", " ", "c", ";">>
    /\ IsSome(parsed)
    /\ Unwrap(parsed) = Err("InvalidExpression", "Invalid assignment target")

(* An operator's node: Logical for `or` and `and`, Binary for the others. *)
LadderNode(left, op, right) ==
    IF op.tty \in {"Or", "And"} THEN ExprLogical(left, op.tty, right)
    ELSE ExprBinary(left, op.tty, right)

(* What `a <op1> b <op2> c` is to parse to: the operator on the higher     *)
(* rung takes its operands first, and on the same rung the left one does.  *)
LadderTree(op1, op2) ==
    IF op2.rung > op1.rung
    THEN LadderNode(Ref("a"), op1, LadderNode(Ref("b"), op2, Ref("c")))
    ELSE LadderNode(LadderNode(Ref("a"), op1, Ref("b")), op2, Ref("c"))

(* C22: expressions parse along the ladder or < and < equality <           *)
(* comparison < term < factor < unary < call: the operands of the operator *)
(* of higher precedence are grouped first, operators of one level group to *)
(* the left, and unary operators nest to the right and take a whole        *)
(* call/index/get chain.                                                   *)
C22_PrecedenceLadder ==
    /\ \A op1 \in LadderOperators, op2 \in LadderOperators :
          (source = LadderSource(op1, op2) /\ IsSome(parsed)) =>
              Unwrap(parsed) = Ok(<<Stmt(LadderTree(op1, op2))>>)
    /\ \A x \in LadderCases :
          (source = x.text \o <<";">> /\ IsSome(parsed)) =>
              Unwrap(parsed) = Ok(<<Stmt(x.tree)>>)

(* `a - b - c;` was parsed: two operators of one level. *)
C22_Witness ==
    /\ source = <<"a", " ", "-", " ", "b", " ", "-", " ", "c", ";">>
    /\ IsSome(parsed)
    /\ Unwrap(parsed).ok

(* The operators that may take a following `=`, with the token type alone  *)
(* and with the `=`.                                                       *)
OperatorKinds ==
    [c \in {"=", "!", ">", "<"} |->
        CASE c = "=" -> [alone |-> "Equal", paired |-> "EqualEqual"]
          [] c = "!" -> [alone |-> "Not", paired |-> "NotEqual"]
          [] c = ">" -> [alone |-> "Greater", paired |-> "GreaterEqual"]
          [] c = "<" -> [alone |-> "Less", paired |-> "LessEqual"]]

(* The character after the one at offset i is c. *)
FollowedBy(i, c) == i + 2 <= Len(source) /\ source[i + 2] = c

(* The offset of the first newline at or after offset i, or the end. *)
LineEnd(i) ==
    CHOOSE j \in i..Len(source) :
        /\ j = Len(source) \/ source[j + 1] = "\n"
        /\ \A k \in i..(j - 1) : source[k + 1] # "\n"

(* One iteration of tokenize's loop on an operator character. *)
C23_Iteration ==
    (scanned.at = "loop" /\ ~is_at_end(ScannerNow)) =>
        LET c == source[current + 1]
        IN /\ c \in DOMAIN OperatorKinds =>
                IF FollowedBy(current, "=")
                THEN /\ tokens' = Append(tokens, Token(OperatorKinds[c].paired, VNone, line))
                     /\ current' = current + 2
                ELSE /\ tokens' = Append(tokens, Token(OperatorKinds[c].alone, VNone, line))
                     /\ current' = current + 1
           /\ c = "/" =>
                IF FollowedBy(current, "/")
                THEN /\ tokens' = tokens
                     /\ current' = LineEnd(current + 2)
                     /\ line' = line
                     /\ scanned' = scanned
                ELSE /\ tokens' = Append(tokens, Token("Slash", VNone, line))
                     /\ current' = current + 1

(* C23: each of `=`, `!`, `>`, `<` followed at once by `=` gives the one   *)
(* token EqualEqual, NotEqual, GreaterEqual, LessEqual and consumes both   *)
(* characters; otherwise, also at the end of the input, it gives Equal,    *)
(* Not, Greater, Less and consumes one; `//` consumes up to but not        *)
(* including the next newline and gives no token; a lone `/` gives Slash.  *)
C23_OperatorLookahead == [][C23_Iteration]_vars

(* `<==` was scanned: LessEqual from two characters, then Equal at the end *)
(* of the input.                                                           *)
C23_Witness ==
    /\ source = <<"<", "=", "=">>
    /\ scanned.at = "loop"
    /\ current = 3
    /\ tokens = <<Token("LessEqual", VNone, 1), Token("Equal", VNone, 1)>>

(* The number of newline characters among the first n of the source. *)
Newlines(n) == Cardinality({j \in 1..n : source[j] = "\n"})

(* The tokens an iteration pushes start at the cursor it began with, Eof   *)
(* at the end of the source.                                               *)
C24_Iteration ==
    scanned.at = "loop" =>
        \A k \in (Len(tokens) + 1)..Len(tokens') :
            tokens'[k].line = 1 + Newlines(current)

(* C24: every token's line is 1 plus the number of newlines before the     *)
(* token's first character, newlines in comments and in earlier string     *)
(* literals included; so it is for a string token that spans lines, and    *)
(* for Eof it is 1 plus the number of all newlines.                        *)
C24_TokenLines == [][C24_Iteration]_vars

(* An interpret call that returns Ok leaves the environment pointer where  *)
(* it was; from the global environment it leaves no block-local or         *)
(* call-local name in sight and keeps the top-level bindings there were.   *)
C25_Call ==
    (calls' = calls + 1 /\ outcome'.ok) =>
        /\ environment' = environment
        /\ environment = 1 =>
              /\ envs'[1].enclosing = 0
              /\ \A n \in LocalNames : ~get(envs', environment', n).ok
              /\ DOMAIN envs[1].values \subseteq DOMAIN envs'[1].values
              /\ DOMAIN envs'[1].values \subseteq TopLevelNames

(* The next program on the same interpreter, started from the global       *)
(* environment, finds a name exactly when it is bound at the top level.    *)
C25_Reuse ==
    (calls' = calls + 1 /\ environment = 1) =>
        \A n \in TopLevelNames \cup LocalNames :
            program' = ReuseProbe(n) => (outcome'.ok <=> n \in DOMAIN envs[1].values)

(* C25: after interpret returns successfully, by normal completion or by a *)
(* top-level Return from inside blocks, loops and calls, the current       *)
(* environment is the global environment it had before the call; a reused  *)
(* interpreter sees the top-level bindings of earlier runs and none of     *)
(* their block-local or call-local bindings.                               *)
C25_GlobalEnvironmentKept == [][C25_Call /\ C25_Reuse]_vars

(* After a program that returned from a loop in a block in a function      *)
(* called from a block, `local;` was run on the same interpreter and       *)
(* failed, with h still defined.                                           *)
C25_Witness ==
    /\ calls = 2
    /\ environment = 1
    /\ program = ReuseProbe("local")
    /\ ~outcome.ok
    /\ DOMAIN envs[1].values = {"h"}

(* C26: scoping of calls is lexical: the body runs in a new environment    *)
(* enclosed by the function's closure, not by the caller's current         *)
(* environment, so a free variable of the body never resolves to a binding *)
(* that only a local scope of the caller has; after the call, ended        *)
(* normally or by `return`, the current environment is the caller's again, *)
(* and a `return` inside blocks or loops of the body ends only that call.  *)
C26_LexicalScoping ==
    \A c \in LexicalCases :
        (calls > 0 /\ program = LexicalProgram(c)) =>
            /\ outcome = IF c.global THEN Ok(Some(VArray(<<VNumber(1), VNumber(2)>>)))
                         ELSE Err("InvalidOperation", "Undefined variable 'x'")
            /\ \A rc \in 2..Len(envs) :
                  envs[rc].values = EmptyMap =>
                      \A e \in ChainOf(envs, rc) : "x" \in DOMAIN envs[e].values => e = 1
            /\ \E rc \in 2..Len(envs) : envs[rc].values = EmptyMap /\ envs[rc].enclosing = 1

(* read, whose body returns from a block in a loop, was called from a      *)
(* function with a parameter x, with x also bound at the top level.        *)
C26_Witness ==
    /\ calls = 1
    /\ program = LexicalProgram([global |-> TRUE, caller |-> "parameter", body |-> "nested"])
    /\ get(envs, 1, "got") = Ok(VNumber(1))
    /\ get(envs, 1, "seen") = Ok(VNumber(2))

(* The most recent value among what the statements of a body produce, Null *)
(* when none of them produces one.                                         *)
MostRecent(body) ==
    LET valued == {j \in 1..Len(body) : IsSome(body[j].produces)}
    IN IF valued = {} THEN VNull
       ELSE Unwrap(body[CHOOSE j \in valued : \A k \in valued : k <= j].produces)

(* C27: a call of a non-initializer function whose body ends without       *)
(* `return` evaluates to the most recent value a statement of the body     *)
(* produced, a statement without a value leaving the earlier value in      *)
(* place, and to null only if no statement of the body produced a value.   *)
C27_CallWithoutReturn ==
    \A body \in Bodies :
        (calls > 0 /\ program = BodyProgram(body)) =>
            /\ outcome = Ok(Some(MostRecent(body)))
            /\ environment = 1

(* f's body was `1; let y = 9;`: the statement without a value came last   *)
(* and the call yielded 1.                                                 *)
C27_Witness ==
    /\ calls = 1
    /\ \E body \in Bodies :
          /\ program = BodyProgram(body)
          /\ Len(body) = 2
          /\ body[1].produces = Some(VNumber(1))
          /\ body[2].stmt = Let("y", Num(9))
    /\ outcome = Ok(Some(VNumber(1)))

(* The 0-based index of the first Eof of a token vector. *)
EofIndex(toks) ==
    (CHOOSE i \in 1..Len(toks) : toks[i].tty = "Eof" /\ \A j \in 1..(i - 1) : toks[j].tty # "Eof")
        - 1

(* declaration() entered at any cursor before Eof, as the loops of parse   *)
(* and block enter it: it stays within the vector, and when it succeeds it *)
(* has consumed a token.                                                   *)
C28_Declarations(toks) ==
    \A c \in 0..(EofIndex(toks) - 1) :
        LET d == declaration(Parser(toks, c))
        IN /\ c <= d.ps.current
           /\ d.ps.current <= EofIndex(toks)
           /\ d.r.ok => d.ps.current > c

C28_State ==
    parser # None =>
        LET ps == Unwrap(parser)
        IN /\ 0 <= ps.current
           /\ ps.current <= EofIndex(ps.tokens)
           /\ Len(parse_statements) <= ps.current
           /\ (parsed = None /\ ps.current = 0) => C28_Declarations(ps.tokens)
           /\ parsed # None =>
                 /\ parse_statements = <<>>
                 /\ IF Unwrap(parsed).ok
                    THEN ps.current = EofIndex(ps.tokens)
                    ELSE "val" \notin DOMAIN Unwrap(parsed)
                 /\ \A c \in RecoveryCases :
                       ps.tokens = c.tokens =>
                           parsed = Some(error(c.msg)) /\ ps.current = c.at

C28_Iteration ==
    (parser # None /\ parsed = None) =>
        /\ Unwrap(parser').tokens = Unwrap(parser).tokens
        /\ \/ /\ parsed' = None
              /\ Unwrap(parser').current > Unwrap(parser).current
              /\ Len(parse_statements') = Len(parse_statements) + 1
           \/ /\ parsed' # None
              /\ ~Unwrap(parsed').ok
              /\ Unwrap(parser').current >= Unwrap(parser).current
           \/ /\ parsed' # None
              /\ Unwrap(parsed').ok
              /\ Parser_is_at_end(Unwrap(parser))
              /\ Unwrap(parsed').val = parse_statements
              /\ parser' = parser

(* C28: on every token vector that ends with Eof the parser's cursor stays *)
(* between 0 and the index of Eof, every iteration of the declaration      *)
(* loops consumes at least one token or returns an error, so parse makes   *)
(* no more iterations than there are tokens before Eof and terminates; a   *)
(* successful parse leaves the cursor on Eof and the first error ends      *)
(* parse with no statements returned.                                      *)
C28_ParserCursor == []C28_State /\ [][C28_Iteration]_vars

(* `1; ) 1;` : one statement was parsed, the error at `)` ended parse and  *)
(* the statement after it was never looked at.                             *)
C28_Witness ==
    /\ parser = Some(Parser(<<TokNumber, Tok("Semicolon"), Tok("RightParen"), TokNumber,
                              Tok("Semicolon"), Tok("Eof")>>, 2))
    /\ parsed = Some(error("Expected expression"))
    /\ parse_statements = <<>>

====
